---- MODULE Spec2Model ----
(***************************************************************************)
(* Budget-constrained itinerary generation of the AI travel planner:       *)
(* SimpleCache (utils/cache.py), TokenTracker and LLMService               *)
(* (services/llm_service.py), BudgetValidator (utils/budget_validator.py)  *)
(* and the TravelResponse schema (models.py).                              *)
(*                                                                         *)
(* Amounts are exact integers (or fractions num/den); Python computes them *)
(* in binary floating point, which this model does not round.              *)
(* Time is counted in hours.                                               *)
(***************************************************************************)
EXTENDS Integers, Sequences, FiniteSets, TLC

(* ------------------------------ bounds -------------------------------- *)
\* number of generate_with_budget_constraint calls made in one behaviour
MaxGenerateCalls == 2
\* a SimpleCache alone: operations made and last tick of the clock
MaxCacheOps == 3
MaxCacheTime == 3
\* largest max_retries argument tried
MaxRetriesBound == 2
\* model calls made in one behaviour
MaxModelCalls == 3
\* the clock stops advancing after this many hours
MaxTime == 26
\* hours by which one Tick advances the clock
TickHours == 13
\* token counts reported in a response's usage_metadata
SampleInputTokens == 120
SampleOutputTokens == 800
\* characters of the prompt template, of the over-budget warning and of the
\* budget-utilization instruction
TemplateChars == 400
WarningChars == 90
ExtensionChars == 600

(* ------------------------- program constants -------------------------- *)
\* cache.py: llm_cache = SimpleCache(max_size=200)
LLM_CACHE_MAX_SIZE == 200
\* cache.py: LLM_CACHE_TTL = 24 * 60 * 60 seconds, in hours
LLM_CACHE_TTL == 24
\* BudgetValidator(tolerance_percentage=5.0)
TolerancePercentage == 5
\* utilization_percentage < 75
UtilizationThreshold == 75
\* estimated_output = 2000
EstimatedOutputTokens == 2000
\* len(formatted_prompt) // 4
CharsPerToken == 4
\* evict_count = max(1, len(sorted_keys) // 10)
EvictDivisor == 10
\* breakdown["miscellaneous"] = subtotal * 0.1, a tenth
MiscDivisor == 10
\* RATES["INR"]: rupees per dollar
InrPerUsd == 83

Max(a, b) == IF a >= b THEN a ELSE b

RECURSIVE SumSeq(_)
SumSeq(s) == IF s = <<>> THEN 0 ELSE Head(s) + SumSeq(Tail(s))

(* ============================ SimpleCache ============================= *)
(* A cache is [store, max_size, hits, misses]; store is the dict _cache as *)
(* the sequence of its items in insertion order, each item                 *)
(* [key, value, expires_at, created_at].                                   *)

NewCache(max_size) ==
    [store |-> <<>>, max_size |-> max_size, hits |-> 0, misses |-> 0]

\* CacheEntry(value, ttl_seconds) built at time t
CacheEntry(key, value, ttl, t) ==
    [key |-> key, value |-> value, expires_at |-> t + ttl, created_at |-> t]

\* is_expired with the comparison turned around
IsExpiredInverted(entry, t) == t < entry.expires_at

\* CacheEntry.is_expired
IsExpired(entry, t) == t > entry.expires_at

HasKey(store, key) == \E i \in 1..Len(store) : store[i].key = key

EntryOf(store, key) ==
    store[CHOOSE i \in 1..Len(store) : store[i].key = key]

\* del self._cache[key]
DelKey(store, key) == SelectSeq(store, LAMBDA e : e.key # key)

\* a get that counts the expired entry it deletes as a hit
CacheGetStateExpiredHit(c, key, t) ==
    IF ~HasKey(c.store, key)
    THEN [c EXCEPT !.misses = @ + 1]
    ELSE IF IsExpired(EntryOf(c.store, key), t)
         THEN [c EXCEPT !.store = DelKey(c.store, key), !.hits = @ + 1]
         ELSE [c EXCEPT !.hits = @ + 1]

\* SimpleCache.get: the cache afterwards
CacheGetState(c, key, t) ==
    IF ~HasKey(c.store, key)
    THEN [c EXCEPT !.misses = @ + 1]
    ELSE IF IsExpired(EntryOf(c.store, key), t)
         THEN [c EXCEPT !.store = DelKey(c.store, key), !.misses = @ + 1]
         ELSE [c EXCEPT !.hits = @ + 1]

\* SimpleCache.get: whether a value is returned (not None)
CacheGetHit(c, key, t) ==
    HasKey(c.store, key) /\ ~IsExpired(EntryOf(c.store, key), t)

\* SimpleCache.get: the value returned on a hit
CacheGetValue(c, key) == EntryOf(c.store, key).value

\* sorted(keys, key=created_at): the positions of the store in the order of
\* a stable sort by creation time
RECURSIVE SortedPositions(_, _)
SortedPositions(store, todo) ==
    IF todo = {} THEN <<>>
    ELSE LET m == CHOOSE i \in todo :
                     \A j \in todo :
                         \/ store[i].created_at < store[j].created_at
                         \/ (store[i].created_at = store[j].created_at /\ i <= j)
         IN <<m>> \o SortedPositions(store, todo \ {m})

\* an eviction that removes the single oldest entry whatever the size
EvictOldestOne(store) ==
    IF store = <<>> THEN store
    ELSE LET order == SortedPositions(store, 1..Len(store))
         IN SelectSeq(store, LAMBDA e : e.key # store[order[1]].key)

\* SimpleCache._evict_oldest
EvictOldest(store) ==
    IF store = <<>> THEN store
    ELSE LET order == SortedPositions(store, 1..Len(store))
             evict_count == Max(1, Len(order) \div EvictDivisor)
             gone == {order[i] : i \in 1..evict_count}
             keep == [i \in 1..Len(store) |-> i \notin gone]
             RECURSIVE Kept(_)
             Kept(i) == IF i > Len(store) THEN <<>>
                        ELSE (IF keep[i] THEN <<store[i]>> ELSE <<>>) \o Kept(i + 1)
         IN Kept(1)

\* SimpleCache.set: the dict after the eviction and before the assignment
RoomFor(c) ==
    IF Len(c.store) >= c.max_size THEN EvictOldest(c.store) ELSE c.store

\* a store that keeps the old entry of a key beside the new one
PutEntryAppend(store, entry) == Append(store, entry)

\* self._cache[key] = entry: an existing key keeps its place in the dict
PutEntry(store, entry) ==
    IF HasKey(store, entry.key)
    THEN [i \in 1..Len(store) |->
             IF store[i].key = entry.key THEN entry ELSE store[i]]
    ELSE Append(store, entry)

\* SimpleCache.clear
CacheClear(c) == [c EXCEPT !.store = <<>>]

\* a set that first drops every expired entry
CacheSetPurging(c, key, value, ttl, t) ==
    LET live == SelectSeq(c.store, LAMBDA e : ~IsExpired(e, t))
        room == IF Len(live) >= c.max_size THEN EvictOldest(live) ELSE live
    IN [c EXCEPT !.store = PutEntry(room, CacheEntry(key, value, ttl, t))]

\* SimpleCache.set
CacheSet(c, key, value, ttl, t) ==
    LET room == IF Len(c.store) >= c.max_size THEN EvictOldest(c.store) ELSE c.store
    IN [c EXCEPT !.store = PutEntry(room, CacheEntry(key, value, ttl, t))]

(* ============================ TokenTracker ============================ *)
NewTracker == [total_tokens |-> 0, total_requests |-> 0]

\* log_tokens that leaves the output tokens out of the total
LogTokensInputOnly(tr, input_tokens, output_tokens) ==
    [total_tokens |-> tr.total_tokens + input_tokens,
     total_requests |-> tr.total_requests + 1]

\* TokenTracker.log_tokens
LogTokens(tr, input_tokens, output_tokens) ==
    [total_tokens |-> tr.total_tokens + (input_tokens + output_tokens),
     total_requests |-> tr.total_requests + 1]

\* round(num / den): the nearest integer, a tie going to the even one
RoundDiv(num, den) ==
    LET q == num \div den
        r == num % den
    IN IF 2 * r < den THEN q
       ELSE IF 2 * r > den THEN q + 1
       ELSE IF q % 2 = 0 THEN q ELSE q + 1

(* TokenTracker.stats. estimated_cost_usd is in ten-thousandths of a       *)
(* dollar: total_tokens / 1000 * 0.0001 rounded to four places.            *)
TrackerStats(tr) ==
    [total_tokens |-> tr.total_tokens,
     total_requests |-> tr.total_requests,
     estimated_cost_usd |-> RoundDiv(tr.total_tokens, 1000),
     avg_tokens_per_request |->
         RoundDiv(tr.total_tokens, IF tr.total_requests >= 1 THEN tr.total_requests ELSE 1)]

(* ============================= documents ============================== *)
(* A JSON value where a number is expected is [t, v]: t = "num" with the   *)
(* number v, "str" for a non-numeric string, "strparse" for a non-numeric  *)
(* string whose text contains "parse" or "JSON", "null" for null.          *)
Num(n) == [t |-> "num", v |-> n]
BadStr == [t |-> "str", v |-> 0]
BadStrParse == [t |-> "strparse", v |-> 0]
Null == [t |-> "null", v |-> 0]

BreakdownKeys ==
    <<"accommodation_total", "transportation_total", "activities_total",
      "food_total", "miscellaneous">>

(* A parsed document (itinerary_data) is                                   *)
(*   [duration, has_breakdown, budget_breakdown, itinerary,                *)
(*    accommodation_suggestions, to_destination, local_transport, rest]    *)
(* budget_breakdown maps the keys it holds to values; itinerary is a       *)
(* sequence of days [activities, food_recommendations], each a sequence of *)
(* estimated_cost values; rest tells whether the other required fields of  *)
(* TravelResponse are "ok", "missing" or "unparsable".                     *)

\* float(x): "ok", or the exception it raises
FloatOutcome(x) ==
    CASE x.t = "num" -> "ok"
      [] x.t = "str" -> "ValueError"
      [] x.t = "strparse" -> "ValueErrorParse"
      [] OTHER -> "TypeError"

\* the outcome of the first float() that fails in a sequence of conversions
RECURSIVE FirstFailure(_)
FirstFailure(vals) ==
    IF vals = <<>> THEN "ok"
    ELSE IF FloatOutcome(Head(vals)) # "ok" THEN FloatOutcome(Head(vals))
         ELSE FirstFailure(Tail(vals))

RECURSIVE SumVals(_)
SumVals(vals) == IF vals = <<>> THEN 0 ELSE Head(vals).v + SumVals(Tail(vals))

\* provided_breakdown.get(key, 0)
GetOrZero(bb, key) == IF key \in DOMAIN bb THEN bb[key] ELSE Num(0)

RECURSIVE DayValues(_)
DayValues(days) ==
    IF days = <<>> THEN <<>>
    ELSE Head(days).activities \o Head(days).food_recommendations
         \o DayValues(Tail(days))

RECURSIVE ActivityValues(_)
ActivityValues(days) ==
    IF days = <<>> THEN <<>>
    ELSE Head(days).activities \o ActivityValues(Tail(days))

RECURSIVE FoodValues(_)
FoodValues(days) ==
    IF days = <<>> THEN <<>>
    ELSE Head(days).food_recommendations \o FoodValues(Tail(days))

(* BudgetValidator._calculate_from_itinerary. The result is                *)
(* [raises, den, breakdown]: the five totals are breakdown[k] / den.       *)
CalculateFromItinerary(doc) ==
    LET n == Len(doc.accommodation_suggestions)
        d == MiscDivisor * Max(1, n)
        order == DayValues(doc.itinerary) \o doc.accommodation_suggestions
                 \o doc.to_destination \o doc.local_transport
        fail == FirstFailure(order)
        activities == SumVals(ActivityValues(doc.itinerary)) * d
        food == SumVals(FoodValues(doc.itinerary)) * d
        accommodation ==
            IF n = 0 THEN 0
            ELSE SumVals(doc.accommodation_suggestions) * doc.duration * MiscDivisor
        transportation ==
            (SumVals(doc.to_destination)
               + SumVals(doc.local_transport) * doc.duration) * d
        subtotal == accommodation + transportation + activities + food
    IN IF fail # "ok"
       THEN [raises |-> fail, den |-> 1, breakdown |-> <<0, 0, 0, 0, 0>>]
       ELSE [raises |-> "ok", den |-> d,
             breakdown |-> <<accommodation, transportation, activities, food,
                             subtotal \div MiscDivisor>>]

\* BudgetValidator._calculate_breakdown
CalculateBreakdown(doc) ==
    IF doc.has_breakdown
    THEN LET vals == [i \in 1..5 |-> GetOrZero(doc.budget_breakdown, BreakdownKeys[i])]
             fail == FirstFailure(vals)
         IN IF fail # "ok"
            THEN [raises |-> fail, den |-> 1, breakdown |-> <<0, 0, 0, 0, 0>>]
            ELSE [raises |-> "ok", den |-> 1,
                  breakdown |-> [i \in 1..5 |-> vals[i].v]]
    ELSE CalculateFromItinerary(doc)

\* the comparison with the bound made exclusive
WithinToleranceStrict(num, den, user_budget) ==
    num * 100 < user_budget * (100 + TolerancePercentage) * den

\* total_cost <= user_budget * (1 + tolerance_percentage / 100)
WithinTolerance(num, den, user_budget) ==
    num * 100 <= user_budget * (100 + TolerancePercentage) * den

(* BudgetValidator.validate_budget: [raises, is_valid, total, den,         *)
(* breakdown], total_cost being total / den.                               *)
ValidateBudget(doc, user_budget) ==
    LET b == CalculateBreakdown(doc)
        total == SumSeq(b.breakdown)
    IN [raises |-> b.raises,
        is_valid |-> b.raises = "ok" /\ WithinTolerance(total, b.den, user_budget),
        total |-> total, den |-> b.den, breakdown |-> b.breakdown]

(* BudgetValidator.get_budget_summary: [raises, is_within_budget,          *)
(* user_budget, estimated_total_cost, den, remaining_budget,               *)
(* percentage_used, status]. estimated_total_cost and remaining_budget are *)
(* numerators over den, percentage_used is in hundredths of a percent.     *)
GetBudgetSummary(doc, user_budget) ==
    LET v == ValidateBudget(doc, user_budget)
    IN IF v.raises # "ok"
       THEN [raises |-> v.raises, is_within_budget |-> FALSE,
             user_budget |-> user_budget, estimated_total_cost |-> 0, den |-> 1,
             remaining_budget |-> 0, percentage_used |-> 0, status |-> "none"]
       ELSE [raises |-> "ok", is_within_budget |-> v.is_valid,
             user_budget |-> user_budget,
             estimated_total_cost |-> v.total, den |-> v.den,
             remaining_budget |-> user_budget * v.den - v.total,
             percentage_used |->
                 IF user_budget > 0
                 THEN RoundDiv(v.total * 10000, v.den * user_budget)
                 ELSE 0,
             status |-> IF v.is_valid THEN "within_budget" ELSE "over_budget"]

(* TravelResponse built from itinerary_data: the kinds of validation error the     *)
(* schema finds. budget_breakdown and its five floats are required, the    *)
(* costs of activities, food and accommodation are floats, the costs of    *)
(* transportation options are Optional[float].                             *)
SchemaErrorOf(x, optional) ==
    CASE x.t = "num" -> {}
      [] x.t = "null" -> IF optional THEN {} ELSE {"type"}
      [] OTHER -> {"parsing"}

SchemaErrors(doc) ==
    LET bb == doc.budget_breakdown
        required == DayValues(doc.itinerary) \o doc.accommodation_suggestions
        opt == doc.to_destination \o doc.local_transport
    IN (IF ~doc.has_breakdown THEN {"missing"}
        ELSE UNION {IF BreakdownKeys[i] \in DOMAIN bb
                    THEN SchemaErrorOf(bb[BreakdownKeys[i]], FALSE)
                    ELSE {"missing"} : i \in 1..5})
       \cup UNION {SchemaErrorOf(required[i], FALSE) : i \in 1..Len(required)}
       \cup UNION {SchemaErrorOf(opt[i], TRUE) : i \in 1..Len(opt)}
       \cup (CASE doc.rest = "ok" -> {}
               [] doc.rest = "missing" -> {"missing"}
               [] OTHER -> {"parsing"})

(* The outcome of TravelResponse built from itinerary_data: "ok", or the           *)
(* ValidationError (a ValueError) whose text lists every error found; the  *)
(* text of a parsing error reads "unable to parse string as a number".     *)
ConstructOutcome(doc) ==
    LET errs == SchemaErrors(doc)
    IN IF errs = {} THEN "ok"
       ELSE IF "parsing" \in errs THEN "ValueErrorParse" ELSE "ValueError"

(* ======================= requests and cache keys ====================== *)
(* Strings that enter the cache key are sequences of character codes.      *)
\* str.lower() on one character
LowerChar(ch) == IF ch \in 65..90 THEN ch + 32 ELSE ch

LowerStr(str) == [i \in 1..Len(str) |-> LowerChar(str[i])]

\* the decimal digits of str(n), n >= 0
RECURSIVE Digits(_)
Digits(n) == IF n < 10 THEN <<48 + n>> ELSE Digits(n \div 10) \o <<48 + (n % 10)>>

\* a < b for Python strings: the order of the character codes
RECURSIVE StrLess(_, _)
StrLess(a, b) ==
    IF b = <<>> THEN FALSE
    ELSE IF a = <<>> THEN TRUE
    ELSE IF Head(a) # Head(b) THEN Head(a) < Head(b)
    ELSE StrLess(Tail(a), Tail(b))

\* sorted(list of strings)
RECURSIVE InsertSorted(_, _)
InsertSorted(sorted, w) ==
    IF sorted = <<>> THEN <<w>>
    ELSE IF StrLess(w, Head(sorted)) THEN <<w>> \o sorted
    ELSE <<Head(sorted)>> \o InsertSorted(Tail(sorted), w)

RECURSIVE SortedStrs(_)
SortedStrs(ws) ==
    IF ws = <<>> THEN <<>>
    ELSE InsertSorted(SortedStrs(SubSeq(ws, 1, Len(ws) - 1)), ws[Len(ws)])

\* sep.join(words)
RECURSIVE Join(_, _)
Join(sep, ws) ==
    IF ws = <<>> THEN <<>>
    ELSE IF Len(ws) = 1 THEN ws[1]
    ELSE ws[1] \o sep \o Join(sep, Tail(ws))

\* "llm", ":", ",", "True", "False" as character codes
StrLlm == <<108, 108, 109>>
StrColon == <<58>>
StrComma == <<44>>
StrTrue == <<84, 114, 117, 101>>
StrFalse == <<70, 97, 108, 115, 101>>

\* generate_itinerary: cache_key = f"llm:{destination.lower()}:{duration_days}:
\* {budget}:{','.join(sorted(interests))}:{bool(weather_context)}"
CacheKey(request, weather_context) ==
    StrLlm \o StrColon \o LowerStr(request.destination)
    \o StrColon \o Digits(request.duration_days)
    \o StrColon \o Digits(request.budget)
    \o StrColon \o Join(StrComma, SortedStrs(request.interests))
    \o StrColon \o (IF weather_context # "" THEN StrTrue ELSE StrFalse)

\* "Goa", "food", "beach"
StrGoa == <<71, 111, 97>>
StrFood == <<102, 111, 111, 100>>
StrBeach == <<98, 101, 97, 99, 104>>

\* the requests tried: the same trip on two budgets
(* budgets of the requests tried; main.py truncates a converted budget    *)
(* with int(), so a budget below one dollar reaches the service as 0       *)
SampleBudgets == {0, 1000}

Requests ==
    {[destination |-> StrGoa, duration_days |-> 2, budget |-> b,
      currency |-> "USD", interests |-> <<StrFood, StrBeach>>] : b \in SampleBudgets}

WeatherContexts == {"", "Rain expected on day 2"}

\* the (request, weather_context) pairs tried
CallInputs ==
    {<<r, "">> : r \in Requests}
    \cup {<<r, w>> : r \in {q \in Requests : q.budget = 1000}, w \in WeatherContexts}

(* ========================= model responses ============================ *)
\* sample documents: the embedded budget_breakdown sums to `total`
BreakdownOf(total) ==
    [k \in {BreakdownKeys[i] : i \in 1..5} |->
        IF k = "accommodation_total" THEN Num(total - 400)
        ELSE Num(100)]

GoodDoc(total) ==
    [duration |-> 2, has_breakdown |-> TRUE, budget_breakdown |-> BreakdownOf(total),
     itinerary |-> <<[activities |-> <<Num(50)>>, food_recommendations |-> <<Num(20)>>]>>,
     accommodation_suggestions |-> <<Num(100)>>,
     to_destination |-> <<Num(200)>>, local_transport |-> <<Num(10)>>,
     rest |-> "ok"]

\* totals that are low, at the tolerance bound and over it for the smaller
\* budget of Requests, and low, at 75% and fine for the larger
SampleTotals == {700, 1050, 1200}

SampleDocs ==
    {GoodDoc(t) : t \in SampleTotals}
    \cup {[GoodDoc(700) EXCEPT !.rest = "missing"],
          [GoodDoc(1200) EXCEPT !.rest = "missing"],
          [GoodDoc(700) EXCEPT !.rest = "unparsable"],
          [GoodDoc(700) EXCEPT !.budget_breakdown["food_total"] = BadStr],
          [GoodDoc(700) EXCEPT !.budget_breakdown["food_total"] = Null]}

(* The text of a response is [empty, ends_brace, parses, doc]: whether it  *)
(* is empty after strip(), whether it ends with "}", and what              *)
(* _parse_json_response makes of it.                                       *)
NoBody == [none |-> TRUE]

EmptyText == [empty |-> TRUE, ends_brace |-> FALSE, parses |-> FALSE, doc |-> NoBody]
\* a JSON object and nothing else
PlainText(body) == [empty |-> FALSE, ends_brace |-> TRUE, parses |-> TRUE, doc |-> body]
\* a JSON object inside a ``` fence, or followed by prose
WrappedText(body) == [empty |-> FALSE, ends_brace |-> FALSE, parses |-> TRUE, doc |-> body]
\* output cut short
CutText == [empty |-> FALSE, ends_brace |-> FALSE, parses |-> FALSE, doc |-> NoBody]
\* an object with an unescaped quote inside a string
BrokenText == [empty |-> FALSE, ends_brace |-> TRUE, parses |-> FALSE, doc |-> NoBody]

Texts ==
    {EmptyText, CutText, BrokenText, WrappedText(GoodDoc(700))}
    \cup {PlainText(b) : b \in SampleDocs}

(* usage: "metadata" (usage_metadata with its two counts), "absent" (no    *)
(* usage_metadata attribute), "nocounts" (usage_metadata whose counts are  *)
(* None, so that adding them raises inside the logging try)                *)
UsageKinds == {"metadata", "absent", "nocounts"}

\* what generate_content does: raise, or return a response
Responses ==
    {[raises |-> TRUE, text |-> EmptyText, usage |-> "absent"]}
    \cup {[raises |-> FALSE, text |-> t, usage |-> "metadata"] : t \in Texts}
    \cup {[raises |-> FALSE, text |-> PlainText(GoodDoc(1050)), usage |-> u] :
             u \in UsageKinds}

(* ============================ LLMService ============================== *)
(* The prompt template is the sequence of budget-utilization instructions  *)
(* appended to the text loaded from prompts/itinerary_prompt.txt; a        *)
(* formatted prompt is [template, warning, weather].                       *)
BaseTemplate == <<>>

\* generate_itinerary: prompt_template.format(...) and the retry context
FormatPrompt(template, request, retry_count, weather_context) ==
    [template |-> template, warning |-> retry_count > 0,
     weather |-> weather_context, budget |-> request.budget]

\* len(formatted_prompt)
PromptChars(prompt) ==
    TemplateChars + ExtensionChars * Len(prompt.template)
    + (IF prompt.warning THEN WarningChars ELSE 0)

(* A document in flight is [src, rc, key, body]: the number of the model   *)
(* call whose response it was parsed from, the retry_count and the cache   *)
(* key of that generation, and the parsed data.                            *)
NoDoc == [src |-> 0, rc |-> 0, key |-> <<>>, body |-> NoBody]

(* generate_itinerary that never looks into the cache                      *)
GenerateLookupNoCache(cache, template, request, weather_context, retry_count, t) ==
    [cache |-> cache, hit |-> FALSE, data |-> NoDoc,
     prompt |-> FormatPrompt(template, request, retry_count, weather_context)]

(* generate_itinerary up to the API call: [cache, hit, data, prompt]       *)
GenerateLookup(cache, template, request, weather_context, retry_count, t) ==
    LET key == CacheKey(request, weather_context)
        prompt == FormatPrompt(template, request, retry_count, weather_context)
    IN IF retry_count = 0
       THEN [cache |-> CacheGetState(cache, key, t),
             hit |-> CacheGetHit(cache, key, t),
             data |-> IF CacheGetHit(cache, key, t)
                      THEN CacheGetValue(cache, key) ELSE NoDoc,
             prompt |-> prompt]
       ELSE [cache |-> cache, hit |-> FALSE, data |-> NoDoc, prompt |-> prompt]

\* generate_itinerary: the token logging of a response
LogUsage(tracker, usage, prompt) ==
    CASE usage = "metadata" -> LogTokens(tracker, SampleInputTokens, SampleOutputTokens)
      [] usage = "absent" ->
            LogTokens(tracker, PromptChars(prompt) \div CharsPerToken, EstimatedOutputTokens)
      [] OTHER -> tracker

\* _parse_json_response: whether it returns, and what
ParseJsonResponse(text) == [ok |-> text.parses, body |-> text.doc]

(* generate_itinerary that caches the response of every attempt            *)
GenerateReceiveAlwaysCache(cache, tracker, request, weather_context, retry_count, prompt, resp, serial, t) ==
    LET key == CacheKey(request, weather_context)
        logged == LogUsage(tracker, resp.usage, prompt)
        parsed == ParseJsonResponse(resp.text)
        data == [src |-> serial, rc |-> retry_count, key |-> key,
                 body |-> parsed.body]
        failed(why) == [cache |-> cache, tracker |-> logged, outcome |-> why,
                        data |-> NoDoc, parser_called |-> why = "parse"]
    IN IF resp.raises
       THEN [cache |-> cache, tracker |-> tracker, outcome |-> "api", data |-> NoDoc,
             parser_called |-> FALSE]
       ELSE IF resp.text.empty THEN failed("empty")
       ELSE IF ~resp.text.ends_brace /\ retry_count = 0 THEN failed("truncated")
       ELSE IF ~parsed.ok THEN failed("parse")
       ELSE [cache |-> CacheSet(cache, key, data, LLM_CACHE_TTL, t),
             tracker |-> logged, outcome |-> "ok", data |-> data,
             parser_called |-> TRUE]

(* generate_itinerary without the check for a closing brace                *)
GenerateReceiveNoBraceCheck(cache, tracker, request, weather_context, retry_count, prompt, resp, serial, t) ==
    LET key == CacheKey(request, weather_context)
        logged == LogUsage(tracker, resp.usage, prompt)
        parsed == ParseJsonResponse(resp.text)
        data == [src |-> serial, rc |-> retry_count, key |-> key,
                 body |-> parsed.body]
        failed(why) == [cache |-> cache, tracker |-> logged, outcome |-> why,
                        data |-> NoDoc, parser_called |-> why = "parse"]
    IN IF resp.raises
       THEN [cache |-> cache, tracker |-> tracker, outcome |-> "api", data |-> NoDoc,
             parser_called |-> FALSE]
       ELSE IF resp.text.empty THEN failed("empty")
       ELSE IF ~parsed.ok THEN failed("parse")
       ELSE [cache |-> IF retry_count = 0
                       THEN CacheSet(cache, key, data, LLM_CACHE_TTL, t)
                       ELSE cache,
             tracker |-> logged, outcome |-> "ok", data |-> data,
             parser_called |-> TRUE]

(* generate_itinerary from the API call on: [cache, tracker, outcome,      *)
(* data, parser_called]; outcome is "ok" or the reason of the Exception    *)
(* raised: "api", "empty", "truncated", "parse"; parser_called tells       *)
(* whether _parse_json_response was reached.                               *)
GenerateReceive(cache, tracker, request, weather_context, retry_count, prompt, resp, serial, t) ==
    LET key == CacheKey(request, weather_context)
        logged == LogUsage(tracker, resp.usage, prompt)
        parsed == ParseJsonResponse(resp.text)
        data == [src |-> serial, rc |-> retry_count, key |-> key,
                 body |-> parsed.body]
        failed(why) == [cache |-> cache, tracker |-> logged, outcome |-> why,
                        data |-> NoDoc, parser_called |-> why = "parse"]
    IN IF resp.raises
       THEN [cache |-> cache, tracker |-> tracker, outcome |-> "api", data |-> NoDoc,
             parser_called |-> FALSE]
       ELSE IF resp.text.empty THEN failed("empty")
       ELSE IF ~resp.text.ends_brace /\ retry_count = 0 THEN failed("truncated")
       ELSE IF ~parsed.ok THEN failed("parse")
       ELSE [cache |-> IF retry_count = 0
                       THEN CacheSet(cache, key, data, LLM_CACHE_TTL, t)
                       ELSE cache,
             tracker |-> logged, outcome |-> "ok", data |-> data,
             parser_called |-> TRUE]

\* the response carries a text that, stripped, is not empty and does not end
\* with "}"
ReceivedCut(resp) == ~resp.raises /\ ~resp.text.empty /\ ~resp.text.ends_brace

\* the threshold applied to the cost above the budget
UnderUtilizedLoose(total, den, budget) ==
    total * 100 < (100 + UtilizationThreshold) * budget * den

\* utilization_percentage < 75, for total_cost = total / den
UnderUtilized(total, den, budget) ==
    total * 100 < UtilizationThreshold * budget * den

(* The state of one generate_with_budget_constraint call.                  *)
IdleCall ==
    [pc |-> "idle", request |-> CHOOSE r \in Requests : TRUE, max_retries |-> 0,
     weather_context |-> "", attempt |-> 0,
     budget_utilization_retry_used |-> FALSE,
     itinerary_data |-> NoDoc, is_valid |-> FALSE, total_cost |-> 0, total_den |-> 1,
     original_prompt |-> BaseTemplate, formatted_prompt |-> FormatPrompt(BaseTemplate,
        CHOOSE r \in Requests : TRUE, 0, ""),
     budget_status |-> "", raised |-> "none",
     \* history of the call
     h_model |-> 0, h_validated |-> 0, h_over |-> 0, h_sets |-> 0,
     h_hit0 |-> FALSE, h_hit_doc |-> NoDoc,
     h_opt |-> "none", h_opt_attempt |-> 0, h_opt_model |-> 0, h_original |-> NoDoc,
     h_judged |-> NoDoc, h_fail |-> "none", h_fail_attempt |-> 0,
     h_raised_by |-> "none", h_call_no |-> 0, h_start_tracker |-> NewTracker,
     h_start_empty |-> TRUE, h_start_entry |-> NoDoc, h_start_expires |-> 0,
     h_parser |-> 0, h_cut |-> FALSE, h_last_set |-> 0]

\* the for loop goes on to the next attempt
NextAttempt(c) == [c EXCEPT !.attempt = @ + 1, !.pc = "attempt"]

(* except clauses that re-raise whatever they catch                        *)
HandleExceptionNoRetry(c, exc, why) ==
    [c EXCEPT !.h_fail = why, !.h_fail_attempt = c.attempt,
              !.pc = "raised", !.h_raised_by = why,
              !.raised = IF exc \in {"ValueError", "ValueErrorParse"}
                         THEN "ValueError" ELSE "Exception"]

(* the except clauses of generate_with_budget_constraint: exc is the class *)
(* caught, "ValueErrorParse" a ValueError whose text contains "JSON" or    *)
(* "parse"; why is what failed                                             *)
HandleException(c, exc, why) ==
    LET seen == [c EXCEPT !.h_fail = why, !.h_fail_attempt = c.attempt]
        fatal(class) == [seen EXCEPT !.pc = "raised", !.raised = class,
                                     !.h_raised_by = why]
    IN IF exc \in {"ValueError", "ValueErrorParse"}
       THEN IF exc = "ValueErrorParse" /\ c.attempt < c.max_retries
            THEN NextAttempt(seen)
            ELSE fatal("ValueError")
       ELSE IF c.attempt < c.max_retries
            THEN NextAttempt(seen)
            ELSE fatal("Exception")

\* TravelResponse built from itinerary_data, tagged and returned
ReturnResponse(c, status) ==
    IF ConstructOutcome(c.itinerary_data.body) = "ok"
    THEN [c EXCEPT !.pc = "returned", !.budget_status = status]
    ELSE HandleException(c, ConstructOutcome(c.itinerary_data.body), "construct")

\* a decision that returns an over-budget document of any attempt
DecideNoRetry(c) ==
    IF c.is_valid THEN ReturnResponse(c, "within_budget")
    ELSE ReturnResponse(c, "over_budget")

\* a decision that goes on to another attempt after the last one
DecideAgain(c) ==
    IF c.is_valid THEN ReturnResponse(c, "within_budget")
    ELSE NextAttempt(c)

\* generate_with_budget_constraint from "if is_valid:" to the end of the try
Decide(c) ==
    IF c.is_valid THEN ReturnResponse(c, "within_budget")
    ELSE IF c.attempt = c.max_retries THEN ReturnResponse(c, "over_budget")
    ELSE NextAttempt(c)

\* the instruction appended to the template for the optimization retry
UtilizationInstruction(p, c) ==
    [by |-> p, total |-> c.total_cost, budget |-> c.request.budget]

(* generate_with_budget_constraint after generate_itinerary returned data  *)
(* in attempt c.attempt: validation, utilization, and either the start of  *)
(* the optimization retry or the decision. [c, template]                   *)
AfterGenerate(p, c, template, data) ==
    LET v == ValidateBudget(data.body, c.request.budget)
        got == [c EXCEPT !.itinerary_data = data, !.h_validated = @ + 1]
        judged == [got EXCEPT !.is_valid = v.is_valid, !.total_cost = v.total,
                              !.total_den = v.den, !.h_judged = data,
                              !.h_over = IF v.is_valid THEN @ ELSE @ + 1]
    IN IF v.raises # "ok"
       THEN [c |-> HandleException(got, v.raises, "validate"), template |-> template]
       ELSE IF c.request.budget = 0
       THEN [c |-> HandleException(judged, "ZeroDivisionError", "utilization"),
             template |-> template]
       ELSE IF /\ UnderUtilized(v.total, v.den, c.request.budget)
               /\ ~c.budget_utilization_retry_used
               /\ c.attempt < c.max_retries
       THEN [c |-> [judged EXCEPT !.budget_utilization_retry_used = TRUE,
                                  !.original_prompt = template,
                                  !.pc = "optimize",
                                  !.h_opt = "started", !.h_opt_attempt = c.attempt,
                                  !.h_original = data],
             template |-> Append(template, UtilizationInstruction(p, judged))]
       ELSE [c |-> Decide(judged), template |-> template]

(* an optimization retry that keeps the validation outcome of the          *)
(* original document                                                       *)
AfterOptimizeStale(c, outcome, data) ==
    LET got == [c EXCEPT !.itinerary_data = data, !.h_validated = @ + 1]
        after == IF outcome # "ok" THEN [c EXCEPT !.h_opt = "failed_generate"]
                 ELSE [got EXCEPT !.h_opt = "done"]
    IN [c |-> Decide(after), template |-> c.original_prompt]

(* an optimization retry that restores the template only when it did not   *)
(* throw                                                                   *)
AfterOptimizeNoFinally(c, outcome, data) ==
    LET v == ValidateBudget(data.body, c.request.budget)
        got == [c EXCEPT !.itinerary_data = data, !.h_validated = @ + 1]
        judged == [got EXCEPT !.is_valid = v.is_valid, !.total_cost = v.total,
                              !.total_den = v.den, !.h_judged = data]
        after == IF outcome # "ok" THEN [c EXCEPT !.h_opt = "failed_generate"]
                 ELSE IF v.raises # "ok" THEN [got EXCEPT !.h_opt = "failed_validate"]
                 ELSE [judged EXCEPT !.h_opt = "done"]
    IN [c |-> Decide(after),
        template |-> IF outcome # "ok" \/ v.raises # "ok"
                     THEN Append(c.original_prompt, UtilizationInstruction(0, c))
                     ELSE c.original_prompt]

(* the try/except/finally of the optimization retry after its             *)
(* generate_itinerary returned data (outcome "ok") or raised: [c, template]*)
AfterOptimize(c, outcome, data) ==
    LET v == ValidateBudget(data.body, c.request.budget)
        got == [c EXCEPT !.itinerary_data = data, !.h_validated = @ + 1]
        judged == [got EXCEPT !.is_valid = v.is_valid, !.total_cost = v.total,
                              !.total_den = v.den, !.h_judged = data]
        after == IF outcome # "ok" THEN [c EXCEPT !.h_opt = "failed_generate"]
                 ELSE IF v.raises # "ok" THEN [got EXCEPT !.h_opt = "failed_validate"]
                 ELSE [judged EXCEPT !.h_opt = "done"]
    IN [c |-> Decide(after), template |-> c.original_prompt]

(* ============================== state ================================= *)
VARIABLES
    llm_cache,        \* utils.cache.llm_cache
    token_tracker,    \* services.llm_service.token_tracker
    prompt_template,  \* llm_service.prompt_template
    now,              \* time.time(), in hours
    serial,           \* model calls made so far
    started,          \* generate_with_budget_constraint calls started so far
    returned_docs,    \* history: [key, doc, status, call_no, at] of the documents returned
    call,             \* per caller, the state of its call
    unit              \* the object under test of the specifications of single components

vars == <<llm_cache, token_tracker, prompt_template, now, serial, started,
          returned_docs, call, unit>>

\* the variables of the service
service_vars == <<llm_cache, token_tracker, prompt_template, now, serial, started,
                  returned_docs, call>>

\* no component is under test
NoUnit == [kind |-> "none"]

\* callers of the shared llm_service; the sequential specification uses one
Callers == {1, 2}
SeqCallers == {1}

KeyOf(c) == CacheKey(c.request, c.weather_context)

ServiceInit ==
    /\ llm_cache = NewCache(LLM_CACHE_MAX_SIZE)
    /\ token_tracker = NewTracker
    /\ prompt_template = BaseTemplate
    /\ now = 0
    /\ serial = 0
    /\ started = 0
    /\ returned_docs = {}
    /\ call = [p \in Callers |-> IdleCall]

Init == ServiceInit /\ unit = NoUnit

\* the call of p moves to c, the template to template
Settle(p, c, template) ==
    /\ call' = [call EXCEPT ![p] = c]
    /\ prompt_template' = template
    /\ returned_docs' =
          IF c.pc = "returned"
          THEN returned_docs \cup {[key |-> KeyOf(c), doc |-> c.itinerary_data,
                                    status |-> c.budget_status,
                                    call_no |-> c.h_call_no, at |-> now]}
          ELSE returned_docs

\* a caller enters generate_with_budget_constraint
Start(p, request, max_retries, weather_context) ==
    /\ call[p].pc \in {"idle", "returned", "raised"}
    /\ started < MaxGenerateCalls
    /\ started' = started + 1
    /\ LET key == CacheKey(request, weather_context)
           held == HasKey(llm_cache.store, key)
       IN call' = [call EXCEPT ![p] =
             [IdleCall EXCEPT
                 !.pc = "attempt", !.request = request,
                 !.max_retries = max_retries,
                 !.weather_context = weather_context,
                 !.h_call_no = started + 1,
                 !.h_start_tracker = token_tracker,
                 !.h_start_empty = (llm_cache.store = <<>>),
                 !.h_start_entry = IF held THEN EntryOf(llm_cache.store, key).value
                                   ELSE NoDoc,
                 !.h_start_expires = IF held
                                     THEN EntryOf(llm_cache.store, key).expires_at
                                     ELSE 0]]
    /\ UNCHANGED <<llm_cache, token_tracker, prompt_template, now, serial,
                   returned_docs, unit>>

\* attempt c.attempt begins: generate_itinerary(retry_count=attempt) runs up
\* to the API call, or returns the cached document
BeginAttempt(p) ==
    LET c == call[p]
        g == GenerateLookup(llm_cache, prompt_template, c.request,
                            c.weather_context, c.attempt, now)
        r == AfterGenerate(p, [c EXCEPT !.h_hit0 = TRUE, !.h_hit_doc = g.data],
                           prompt_template, g.data)
    IN /\ c.pc = "attempt"
       /\ llm_cache' = g.cache
       /\ IF g.hit THEN Settle(p, r.c, r.template)
          ELSE Settle(p, [c EXCEPT !.pc = "api", !.formatted_prompt = g.prompt],
                      prompt_template)
       /\ UNCHANGED <<token_tracker, now, serial, started, unit>>

\* the API call of attempt c.attempt ends with resp; the rest of
\* generate_itinerary and of the attempt follows
ModelReply(p, resp) ==
    LET c == call[p]
        g == GenerateReceive(llm_cache, token_tracker, c.request, c.weather_context,
                             c.attempt, c.formatted_prompt, resp, serial + 1, now)
        c1 == [c EXCEPT !.h_model = @ + 1,
                        !.h_sets = IF g.cache # llm_cache THEN @ + 1 ELSE @,
                        !.h_parser = IF g.parser_called THEN @ + 1 ELSE @,
                        !.h_cut = ReceivedCut(resp),
                        !.h_last_set = IF g.cache # llm_cache THEN serial + 1 ELSE @]
        r == AfterGenerate(p, c1, prompt_template, g.data)
    IN /\ c.pc = "api"
       /\ serial < MaxModelCalls
       /\ serial' = serial + 1
       /\ llm_cache' = g.cache
       /\ token_tracker' = g.tracker
       /\ IF g.outcome = "ok" THEN Settle(p, r.c, r.template)
          ELSE Settle(p, HandleException(c1, "Exception", g.outcome), prompt_template)
       /\ UNCHANGED <<now, started, unit>>

\* the optimization retry begins: generate_itinerary(retry_count=0) runs up
\* to the API call, or returns the cached document
BeginOptimize(p) ==
    LET c == call[p]
        g == GenerateLookup(llm_cache, prompt_template, c.request,
                            c.weather_context, 0, now)
        r == AfterOptimize(c, "ok", g.data)
    IN /\ c.pc = "optimize"
       /\ llm_cache' = g.cache
       /\ IF g.hit THEN Settle(p, r.c, r.template)
          ELSE Settle(p, [c EXCEPT !.pc = "optapi", !.formatted_prompt = g.prompt],
                      prompt_template)
       /\ UNCHANGED <<token_tracker, now, serial, started, unit>>

\* the API call of the optimization retry ends with resp
OptimizeReply(p, resp) ==
    LET c == call[p]
        g == GenerateReceive(llm_cache, token_tracker, c.request, c.weather_context,
                             0, c.formatted_prompt, resp, serial + 1, now)
        c1 == [c EXCEPT !.h_model = @ + 1, !.h_opt_model = @ + 1,
                        !.h_sets = IF g.cache # llm_cache THEN @ + 1 ELSE @,
                        !.h_parser = IF g.parser_called THEN @ + 1 ELSE @,
                        !.h_cut = ReceivedCut(resp),
                        !.h_last_set = IF g.cache # llm_cache THEN serial + 1 ELSE @]
        r == AfterOptimize(c1, g.outcome, g.data)
    IN /\ c.pc = "optapi"
       /\ serial < MaxModelCalls
       /\ serial' = serial + 1
       /\ llm_cache' = g.cache
       /\ token_tracker' = g.tracker
       /\ Settle(p, r.c, r.template)
       /\ UNCHANGED <<now, started, unit>>

(* time passes; only the time elapsed since an entry was stored is         *)
(* observed, and only by a call, so the clock starts with the first entry  *)
(* and stops after the last call                                           *)
Tick ==
    /\ llm_cache.store # <<>>
    /\ \/ started < MaxGenerateCalls
       \/ \E p \in Callers : call[p].pc \in {"attempt", "api", "optimize", "optapi"}
    /\ now + TickHours <= MaxTime
    /\ now' = now + TickHours
    /\ UNCHANGED <<llm_cache, token_tracker, prompt_template, serial, started,
                   returned_docs, call, unit>>

Next ==
    \/ \E p \in SeqCallers, i \in CallInputs, m \in 0..MaxRetriesBound :
          Start(p, i[1], m, i[2])
    \/ \E p \in SeqCallers : BeginAttempt(p)
    \/ \E p \in SeqCallers, resp \in Responses : ModelReply(p, resp)
    \/ \E p \in SeqCallers : BeginOptimize(p)
    \/ \E p \in SeqCallers, resp \in Responses : OptimizeReply(p, resp)
    \/ Tick

Spec == Init /\ [][Next]_vars

(* ================== two callers of the shared service ================== *)
(* Two threads call generate_with_budget_constraint with the same request, *)
(* so with the same cache key. The steps of a call are the ones of Spec:   *)
(* the cache lookup up to the API call is one step, the reply with the     *)
(* cache write and the validation is another. Each thread makes one call,  *)
(* and the calls end within the time to live of an entry, so no time       *)
(* passes.                                                                 *)
RaceRequest == CHOOSE r \in Requests : r.budget = 1000

\* the API call raises, is cut short, or returns a document that is
\* under-used, or over budget
RaceResponses ==
    {r \in Responses :
        \/ r.raises
        \/ r.usage = "metadata"
           /\ r.text \in {CutText, PlainText(GoodDoc(700)), PlainText(GoodDoc(1200))}}

\* a thread that has made no call yet enters generate_with_budget_constraint
RaceStart(p, max_retries) ==
    /\ call[p].pc = "idle"
    /\ Start(p, RaceRequest, max_retries, "")

NextRace ==
    \/ \E p \in Callers, m \in 0..MaxRetriesBound : RaceStart(p, m)
    \/ \E p \in Callers : BeginAttempt(p)
    \/ \E p \in Callers, resp \in RaceResponses : ModelReply(p, resp)
    \/ \E p \in Callers : BeginOptimize(p)
    \/ \E p \in Callers, resp \in RaceResponses : OptimizeReply(p, resp)

SpecRace == Init /\ [][NextRace]_vars

(* ===================== the request handler's part ===================== *)
\* needle in haystack, for Python strings
Contains(haystack, needle) ==
    \E i \in 0..(Len(haystack) - Len(needle)) :
        SubSeq(haystack, i + 1, i + Len(needle)) = needle

\* a sample of CurrencyConverter.INDIAN_DESTINATIONS: "goa"
IndianDestinations == {<<103, 111, 97>>}

\* CurrencyConverter.is_indian_destination
IsIndianDestination(destination) ==
    \E d \in IndianDestinations : Contains(LowerStr(destination), d)

(* int(currency_converter.convert_to_usd(amount, "INR")): the amount in    *)
(* dollars rounded to cents, then truncated to whole dollars               *)
IntConvertToUsd(amount) ==
    ((amount * 100 * 2 + InrPerUsd) \div (2 * InrPerUsd)) \div 100

(* main.py generate_itinerary: the request as it is handed to              *)
(* generate_with_budget_constraint                                         *)
HandledRequest(request) ==
    IF request.currency = "INR" /\ IsIndianDestination(request.destination)
    THEN request
    ELSE IF request.currency # "USD"
    THEN [request EXCEPT !.budget = IntConvertToUsd(request.budget),
                         !.currency = "USD"]
    ELSE request

(* ================= a SimpleCache shared by two threads ================= *)
(* unit is [kind, cache, t, th, gets_done, over]: the cache, the clock,    *)
(* per thread the state of its call, the number of get calls that have     *)
(* returned, and whether a set left more than max_size entries. A thread   *)
(* runs get and set statement by statement, and `+= 1` on a counter as a   *)
(* read followed by a write, the points at which the interpreter switches  *)
(* threads; SimpleCache takes no lock. sorted() with its key function is   *)
(* taken as one step. A thread state is                                    *)
(*   [pc, key, ttl, expires_at, counter, tmp, todo, ops, failed]           *)
Threads == {1, 2}
MaxThreadOps == 2
MaxThreadTime == 1
ThreadKeys == {1, 2}
ThreadSizes == {1, 2}
ThreadTtls == {0, 2}
\* the value every set stores
ThreadValue == [v |-> "value"]

IdleThread ==
    [pc |-> "idle", key |-> 0, ttl |-> 0, expires_at |-> 0, counter |-> "none",
     tmp |-> 0, todo |-> <<>>, ops |-> 0, failed |-> "none"]

InitThreads ==
    /\ ServiceInit
    /\ unit \in {[kind |-> "threads", cache |-> NewCache(m), t |-> 0,
                   th |-> [i \in Threads |-> IdleThread],
                   gets_done |-> 0, over |-> FALSE] : m \in ThreadSizes}

\* thread i moves to state s
ThreadStep(i, s) == [unit EXCEPT !.th[i] = s]

\* the statement of thread i raises KeyError, which ends its call
ThreadFails(i) ==
    ThreadStep(i, [unit.th[i] EXCEPT !.pc = "idle", !.failed = "KeyError"])

\* thread i calls cache.get(key)
CallGet(i, key) ==
    /\ unit.th[i].pc = "idle" /\ unit.th[i].ops < MaxThreadOps
    /\ unit' = ThreadStep(i, [unit.th[i] EXCEPT !.pc = "get_check", !.key = key,
                                                !.ops = @ + 1])
    /\ UNCHANGED service_vars

\* thread i calls cache.set(key, value, ttl)
CallSet(i, key, ttl) ==
    /\ unit.th[i].pc = "idle" /\ unit.th[i].ops < MaxThreadOps
    /\ unit' = ThreadStep(i, [unit.th[i] EXCEPT !.pc = "set_check", !.key = key,
                                                !.ttl = ttl, !.ops = @ + 1])
    /\ UNCHANGED service_vars

\* if key not in self._cache
GetCheck(i) ==
    /\ unit.th[i].pc = "get_check"
    /\ unit' = IF HasKey(unit.cache.store, unit.th[i].key)
               THEN ThreadStep(i, [unit.th[i] EXCEPT !.pc = "get_read"])
               ELSE ThreadStep(i, [unit.th[i] EXCEPT !.pc = "count_read",
                                                     !.counter = "misses"])
    /\ UNCHANGED service_vars

\* entry = self._cache[key]
GetRead(i) ==
    /\ unit.th[i].pc = "get_read"
    /\ unit' = IF HasKey(unit.cache.store, unit.th[i].key)
               THEN ThreadStep(i, [unit.th[i] EXCEPT
                        !.pc = "get_expiry",
                        !.expires_at = EntryOf(unit.cache.store, unit.th[i].key).expires_at])
               ELSE ThreadFails(i)
    /\ UNCHANGED service_vars

\* if entry.is_expired()
GetExpiry(i) ==
    /\ unit.th[i].pc = "get_expiry"
    /\ unit' = IF IsExpired([expires_at |-> unit.th[i].expires_at], unit.t)
               THEN ThreadStep(i, [unit.th[i] EXCEPT !.pc = "get_del"])
               ELSE ThreadStep(i, [unit.th[i] EXCEPT !.pc = "count_read",
                                                     !.counter = "hits"])
    /\ UNCHANGED service_vars

\* del self._cache[key]
GetDel(i) ==
    /\ unit.th[i].pc = "get_del"
    /\ unit' = IF HasKey(unit.cache.store, unit.th[i].key)
               THEN [ThreadStep(i, [unit.th[i] EXCEPT !.pc = "count_read",
                                                      !.counter = "misses"])
                       EXCEPT !.cache.store = DelKey(@, unit.th[i].key)]
               ELSE ThreadFails(i)
    /\ UNCHANGED service_vars

\* self._hits += 1 or self._misses += 1: the counter is read
CountRead(i) ==
    /\ unit.th[i].pc = "count_read"
    /\ unit' = ThreadStep(i, [unit.th[i] EXCEPT
                    !.pc = "count_write",
                    !.tmp = IF unit.th[i].counter = "hits" THEN unit.cache.hits
                            ELSE unit.cache.misses])
    /\ UNCHANGED service_vars

\* the counter is written, and get returns
CountWrite(i) ==
    /\ unit.th[i].pc = "count_write"
    /\ unit' = [ThreadStep(i, [unit.th[i] EXCEPT !.pc = "idle"]) EXCEPT
                    !.cache.hits = IF unit.th[i].counter = "hits"
                                   THEN unit.th[i].tmp + 1 ELSE @,
                    !.cache.misses = IF unit.th[i].counter = "misses"
                                     THEN unit.th[i].tmp + 1 ELSE @,
                    !.gets_done = @ + 1]
    /\ UNCHANGED service_vars

\* if len(self._cache) >= self._max_size
SetCheck(i) ==
    /\ unit.th[i].pc = "set_check"
    /\ unit' = IF Len(unit.cache.store) >= unit.cache.max_size
               THEN ThreadStep(i, [unit.th[i] EXCEPT !.pc = "evict_sort"])
               ELSE ThreadStep(i, [unit.th[i] EXCEPT !.pc = "set_put"])
    /\ UNCHANGED service_vars

\* _evict_oldest up to the loop: the keys to delete
EvictSort(i) ==
    LET store == unit.cache.store
        order == SortedPositions(store, 1..Len(store))
        evict_count == Max(1, Len(order) \div EvictDivisor)
    IN /\ unit.th[i].pc = "evict_sort"
       /\ unit' = IF store = <<>>
                  THEN ThreadStep(i, [unit.th[i] EXCEPT !.pc = "set_put"])
                  ELSE ThreadStep(i, [unit.th[i] EXCEPT
                           !.pc = "evict_del",
                           !.todo = [j \in 1..evict_count |-> store[order[j]].key]])
       /\ UNCHANGED service_vars

\* one pass of the loop: del self._cache[key]
EvictDel(i) ==
    LET key == Head(unit.th[i].todo)
        rest == Tail(unit.th[i].todo)
    IN /\ unit.th[i].pc = "evict_del"
       /\ unit' = IF HasKey(unit.cache.store, key)
                  THEN [ThreadStep(i, [unit.th[i] EXCEPT
                            !.todo = rest,
                            !.pc = IF rest = <<>> THEN "set_put" ELSE "evict_del"])
                          EXCEPT !.cache.store = DelKey(@, key)]
                  ELSE ThreadFails(i)
       /\ UNCHANGED service_vars

\* self._cache[key] = CacheEntry(value, ttl_seconds), and set returns
SetPut(i) ==
    LET store == PutEntry(unit.cache.store,
                          CacheEntry(unit.th[i].key, ThreadValue, unit.th[i].ttl, unit.t))
    IN /\ unit.th[i].pc = "set_put"
       /\ unit' = [ThreadStep(i, [unit.th[i] EXCEPT !.pc = "idle"]) EXCEPT
                       !.cache.store = store,
                       !.over = @ \/ Len(store) > unit.cache.max_size]
       /\ UNCHANGED service_vars

\* time.time() advances
ThreadTick ==
    /\ unit.t < MaxThreadTime
    /\ unit.cache.store # <<>>
    /\ unit' = [unit EXCEPT !.t = @ + 1]
    /\ UNCHANGED service_vars

NextThreads ==
    \/ \E i \in Threads, k \in ThreadKeys : CallGet(i, k)
    \/ \E i \in Threads, k \in ThreadKeys, ttl \in ThreadTtls : CallSet(i, k, ttl)
    \/ \E i \in Threads :
          \/ GetCheck(i) \/ GetRead(i) \/ GetExpiry(i) \/ GetDel(i)
          \/ CountRead(i) \/ CountWrite(i)
          \/ SetCheck(i) \/ EvictSort(i) \/ EvictDel(i) \/ SetPut(i)
    \/ ThreadTick

SpecThreads == InitThreads /\ [][NextThreads]_vars

(* ===================== the TokenTracker on its own ===================== *)
(* unit is [kind, tracker, calls, h_sum, h_count, stats]: a tracker, the   *)
(* number of operations made on it, the sum of the token counts and the    *)
(* number of the log_tokens calls made, and the last result of stats().    *)
MaxLogCalls == 4
TokenCounts == {0, 7, 120, 800}
NoStats == [total_tokens |-> -1, total_requests |-> -1, estimated_cost_usd |-> -1, avg_tokens_per_request |-> -1]

InitTracker ==
    /\ ServiceInit
    /\ unit = [kind |-> "tracker", tracker |-> NewTracker, calls |-> 0,
               h_sum |-> 0, h_count |-> 0, stats |-> NoStats]

\* token_tracker.log_tokens(input_tokens, output_tokens)
UnitLogTokens(input_tokens, output_tokens) ==
    /\ unit.kind = "tracker"
    /\ unit.calls < MaxLogCalls
    /\ unit' = [unit EXCEPT
          !.tracker = LogTokens(unit.tracker, input_tokens, output_tokens),
          !.calls = @ + 1,
          !.h_sum = @ + input_tokens + output_tokens,
          !.h_count = @ + 1]
    /\ UNCHANGED service_vars

\* token_tracker.stats()
UnitStats ==
    /\ unit.kind = "tracker"
    /\ unit.calls < MaxLogCalls
    /\ unit' = [unit EXCEPT !.stats = TrackerStats(unit.tracker), !.calls = @ + 1]
    /\ UNCHANGED service_vars

NextTracker ==
    \/ \E i \in TokenCounts, o \in TokenCounts : UnitLogTokens(i, o)
    \/ UnitStats

SpecTracker == InitTracker /\ [][NextTracker]_vars

(* =================== the budget validator on its own =================== *)
(* unit is [kind, doc, user_budget, stage, result, summary]. Amounts are   *)
(* in hundredths of the currency unit, the numbers of the document and     *)
(* user_budget alike: 10000 is a budget of 100.00. The comparison of       *)
(* validate_budget is the same in every unit of account.                   *)
ValidatorBreakdowns ==
    {[k \in present |->
        CASE k = "accommodation_total" -> a
          [] k = "food_total" -> f
          [] k = "transportation_total" -> t
          [] OTHER -> Num(100)] :
        present \in {{BreakdownKeys[i] : i \in 1..5},
                     {BreakdownKeys[i] : i \in 1..5} \ {"miscellaneous"},
                     {BreakdownKeys[i] : i \in 1..5} \ {"accommodation_total"}},
        a \in {Num(10100), Num(10101)},
        f \in {Num(100), BadStr},
        t \in {Num(100), Null}}

ItemizedDoc ==
    [duration |-> 2, has_breakdown |-> FALSE, budget_breakdown |-> << >>,
     itinerary |-> <<[activities |-> <<Num(50)>>, food_recommendations |-> <<Num(20)>>]>>,
     accommodation_suggestions |-> <<Num(100)>>,
     to_destination |-> <<Num(200)>>, local_transport |-> <<Num(10)>>,
     rest |-> "ok"]

ValidatorDocs ==
    {[ItemizedDoc EXCEPT !.has_breakdown = TRUE, !.budget_breakdown = bb] :
        bb \in ValidatorBreakdowns}
    \cup {ItemizedDoc,
          [ItemizedDoc EXCEPT !.local_transport = <<BadStr>>],
          [ItemizedDoc EXCEPT !.accommodation_suggestions = <<>>]}

ValidatorBudgets == {0, 500, 10000}

NoResult == [raises |-> "none", is_valid |-> FALSE, total |-> 0, den |-> 1, breakdown |-> <<0, 0, 0, 0, 0>>]
NoSummary == [raises |-> "none"]

InitValidator ==
    /\ ServiceInit
    /\ unit \in {[kind |-> "validator", doc |-> d, user_budget |-> b, stage |-> "new",
                   result |-> NoResult, summary |-> NoSummary] :
                      d \in ValidatorDocs, b \in ValidatorBudgets}

\* budget_validator.validate_budget(doc, user_budget)
UnitValidate ==
    /\ unit.stage = "new"
    /\ unit' = [unit EXCEPT !.stage = "validated",
                            !.result = ValidateBudget(unit.doc, unit.user_budget)]
    /\ UNCHANGED service_vars

\* budget_validator.get_budget_summary(doc, user_budget)
UnitSummary ==
    /\ unit.stage = "validated"
    /\ unit' = [unit EXCEPT !.stage = "summarized",
                            !.summary = GetBudgetSummary(unit.doc, unit.user_budget)]
    /\ UNCHANGED service_vars

NextValidator == UnitValidate \/ UnitSummary

SpecValidator == InitValidator /\ [][NextValidator]_vars

(* ====================== the cache key on its own ====================== *)
(* unit is [kind, a, b, key_a, key_b, stage]: two requests as they arrive  *)
(* at the handler, each with the weather summary fetched for it, and the   *)
(* cache keys generate_itinerary builds for them.                          *)
StrGOA == <<71, 79, 65>>
StrRome == <<82, 111, 109, 101>>
StrA == <<97>>
StrB == <<98>>
StrAB == <<97, 44, 98>>

KeyInterests == {<<StrA, StrB>>, <<StrB, StrA>>, <<StrAB>>, <<StrA, StrA>>, <<StrA>>}

KeyRequests ==
    {[request |-> [destination |-> d, duration_days |-> 2, budget |-> b,
                   currency |-> c, interests |-> i],
      weather_context |-> w] :
        d \in {StrGoa, StrGOA, StrRome}, b \in {1000, 83000}, c \in {"USD", "INR"},
        i \in KeyInterests, w \in WeatherContexts}

InitKey ==
    /\ ServiceInit
    /\ unit \in {[kind |-> "key", a |-> a, b |-> b, key_a |-> <<>>, key_b |-> <<>>,
                   stage |-> "arrived"] : a \in KeyRequests, b \in KeyRequests}

\* both requests pass the handler and generate_itinerary builds their keys
BuildKeys ==
    /\ unit.stage = "arrived"
    /\ unit' = [unit EXCEPT
          !.key_a = CacheKey(HandledRequest(unit.a.request), unit.a.weather_context),
          !.key_b = CacheKey(HandledRequest(unit.b.request), unit.b.weather_context),
          !.stage = "keyed"]
    /\ UNCHANGED service_vars

NextKey == BuildKeys

SpecKey == InitKey /\ [][NextKey]_vars

(* ====================== a SimpleCache on its own ====================== *)
(* unit is [kind, cache, t, ops, last, h_set]: a SimpleCache built with    *)
(* some max_size, the clock, the number of operations made, the last       *)
(* operation with what it returned, and per key the latest set (history):  *)
(* its value, time and ttl, and whether the entry was since removed by an  *)
(* eviction or a clear.                                                    *)
CacheKeys == {1, 2, 3}
\* the max_size the cache is built with
CacheSizes == {0, 1, 2}
CacheValues == {10, 20}
CacheTtls == {0, 2}

NoSet == [live |-> FALSE, value |-> 0, at |-> 0, ttl |-> 0]
NoOp == [op |-> "none", key |-> 0, hit |-> FALSE, value |-> 0]

InitCache ==
    /\ ServiceInit
    /\ unit \in {[kind |-> "cache", cache |-> NewCache(m), t |-> 0, ops |-> 0,
                   last |-> NoOp, h_set |-> [k \in CacheKeys |-> NoSet]] :
                     m \in CacheSizes}

\* cache.set(key, value, ttl)
UnitSet(key, value, ttl) ==
    LET c == CacheSet(unit.cache, key, value, ttl, unit.t)
    IN /\ unit.ops < MaxCacheOps
       /\ unit' = [unit EXCEPT
             !.cache = c, !.ops = @ + 1,
             !.last = [op |-> "set", key |-> key, hit |-> FALSE, value |-> value],
             !.h_set = [k \in CacheKeys |->
                          IF k = key
                          THEN [live |-> TRUE, value |-> value, at |-> unit.t,
                                ttl |-> ttl]
                          ELSE IF HasKey(unit.cache.store, k) /\ ~HasKey(c.store, k)
                          THEN [@[k] EXCEPT !.live = FALSE]
                          ELSE @[k]]]
       /\ UNCHANGED service_vars

\* cache.get(key)
UnitGet(key) ==
    LET hit == CacheGetHit(unit.cache, key, unit.t)
    IN /\ unit.ops < MaxCacheOps
       /\ unit' = [unit EXCEPT
             !.cache = CacheGetState(unit.cache, key, unit.t), !.ops = @ + 1,
             !.last = [op |-> "get", key |-> key, hit |-> hit,
                       value |-> IF hit THEN CacheGetValue(unit.cache, key) ELSE 0]]
       /\ UNCHANGED service_vars

\* cache.clear()
UnitClear ==
    /\ unit.ops < MaxCacheOps
    /\ unit.cache.store # <<>>
    /\ unit' = [unit EXCEPT
          !.cache = CacheClear(unit.cache), !.ops = @ + 1,
          !.last = [op |-> "clear", key |-> 0, hit |-> FALSE, value |-> 0],
          !.h_set = [k \in CacheKeys |-> [@[k] EXCEPT !.live = FALSE]]]
    /\ UNCHANGED service_vars

\* time.time() advances
UnitTick ==
    /\ unit.t < MaxCacheTime
    /\ unit.cache.store # <<>>
    /\ unit' = [unit EXCEPT !.t = @ + 1]
    /\ UNCHANGED service_vars

NextCache ==
    \/ \E k \in CacheKeys, v \in CacheValues, ttl \in CacheTtls : UnitSet(k, v, ttl)
    \/ \E k \in CacheKeys : UnitGet(k)
    \/ UnitClear
    \/ UnitTick

SpecCache == InitCache /\ [][NextCache]_vars

(* ====================== the rate limiter on its own ==================== *)
(* unit is [kind, requests, t, sent, last, h_ok, h_rapid]: the dict of the *)
(* RateLimitMiddleware object (per client the times of the requests it     *)
(* let through), the clock in seconds, the number of requests sent, the    *)
(* last request with its answer, and as history per client the number of   *)
(* limited requests answered normally at each time, and the number of      *)
(* requests of any path sent at the present time.                          *)
RequestsPerMinute == 20
WindowSeconds == 60
RateTickSeconds == 30
MaxRateTime == 60
MaxRateRequests == 22
RateClients == {"10.0.0.7"}
ExemptPaths == {"/", "/health", "/docs", "/redoc", "/openapi.json", "/stats"}
RatePaths == {"/health", "/generate-itinerary"}
RateTimes == {n * RateTickSeconds : n \in 0..(MaxRateTime \div RateTickSeconds)}

NoRequest == [client |-> "", path |-> "", status |-> 0, before |-> 0, rapid |-> 0]

\* the entries of a list of times that are later than minute_ago
RECURSIVE LaterThan(_, _)
LaterThan(times, minute_ago) ==
    IF times = <<>> THEN <<>>
    ELSE (IF Head(times) > minute_ago THEN <<Head(times)>> ELSE <<>>)
         \o LaterThan(Tail(times), minute_ago)

\* is_allowed with the window never cleaned
IsAllowedNoCleaning(requests, client_ip, t) ==
    IF Len(requests[client_ip]) >= RequestsPerMinute
    THEN [allowed |-> FALSE, requests |-> requests]
    ELSE [allowed |-> TRUE,
          requests |-> [requests EXCEPT ![client_ip] = Append(@, t)]]

\* is_allowed that refuses only when more than the limit are recorded
IsAllowedOneMore(requests, client_ip, t) ==
    LET recent == LaterThan(requests[client_ip], t - WindowSeconds)
        cleaned == [requests EXCEPT ![client_ip] = recent]
    IN IF Len(recent) > RequestsPerMinute
       THEN [allowed |-> FALSE, requests |-> cleaned]
       ELSE [allowed |-> TRUE,
             requests |-> [cleaned EXCEPT ![client_ip] = Append(@, t)]]

\* RateLimitMiddleware.is_allowed at time t: [allowed, requests]
IsAllowed(requests, client_ip, t) ==
    LET recent == LaterThan(requests[client_ip], t - WindowSeconds)
        cleaned == [requests EXCEPT ![client_ip] = recent]
    IN IF Len(recent) >= RequestsPerMinute
       THEN [allowed |-> FALSE, requests |-> cleaned]
       ELSE [allowed |-> TRUE,
             requests |-> [cleaned EXCEPT ![client_ip] = Append(@, t)]]

\* rate_limit_middleware: [status, requests]; 200 stands for call_next
RateLimit(requests, client_ip, path, t) ==
    IF path \in ExemptPaths
    THEN [status |-> 200, requests |-> requests]
    ELSE LET a == IsAllowed(requests, client_ip, t)
         IN [status |-> IF a.allowed THEN 200 ELSE 429, requests |-> a.requests]

\* the limited requests of a client answered normally later than minute_ago
OkSince(h_ok, client_ip, minute_ago) ==
    LET RECURSIVE Sum(_)
        Sum(ts) == IF ts = {} THEN 0
                   ELSE LET x == CHOOSE y \in ts : TRUE
                        IN h_ok[client_ip][x] + Sum(ts \ {x})
    IN Sum({x \in RateTimes : x > minute_ago})

InitRate ==
    /\ ServiceInit
    /\ unit = [kind |-> "rate", requests |-> [c \in RateClients |-> <<>>], t |-> 0,
               sent |-> 0, last |-> NoRequest,
               h_ok |-> [c \in RateClients |-> [x \in RateTimes |-> 0]],
               h_rapid |-> [c \in RateClients |-> 0]]

\* a request of client_ip for path passes the middleware
RateRequest(client_ip, path) ==
    LET r == RateLimit(unit.requests, client_ip, path, unit.t)
    IN /\ unit.kind = "rate"
       /\ unit.sent < MaxRateRequests
       /\ unit' = [unit EXCEPT
             !.requests = r.requests,
             !.sent = @ + 1,
             !.last = [client |-> client_ip, path |-> path, status |-> r.status,
                       before |-> OkSince(unit.h_ok, client_ip, unit.t - WindowSeconds),
                       rapid |-> unit.h_rapid[client_ip]],
             !.h_ok[client_ip][unit.t] =
                 IF path \notin ExemptPaths /\ r.status = 200 THEN @ + 1 ELSE @,
             !.h_rapid[client_ip] = @ + 1]
       /\ UNCHANGED service_vars

\* time.time() advances
RateTick ==
    /\ unit.kind = "rate"
    /\ unit.t + RateTickSeconds <= MaxRateTime
    /\ unit' = [unit EXCEPT !.t = @ + RateTickSeconds,
                            !.h_rapid = [c \in RateClients |-> 0]]
    /\ UNCHANGED service_vars

NextRate ==
    \/ \E c \in RateClients, p \in RatePaths : RateRequest(c, p)
    \/ RateTick

SpecRate == InitRate /\ [][NextRate]_vars

(* ================= the /generate-itinerary handler alone =============== *)
(* unit is [kind, request, stage, handed, utilization]: a TravelRequest    *)
(* the API accepted (its budget is positive), the request the handler      *)
(* hands to generate_with_budget_constraint, and how the utilization       *)
(* computation of the first validated document ends.                       *)
HandlerBudgets == {1, 41, 42, 50, 82, 83, 84, 1000}

HandlerRequests ==
    {[destination |-> d, duration_days |-> 2, budget |-> b, currency |-> c,
      interests |-> <<StrFood>>] :
        d \in {StrGoa, StrGOA, StrRome}, b \in HandlerBudgets, c \in {"USD", "INR"}}

InitHandler ==
    /\ ServiceInit
    /\ unit \in {[kind |-> "handler", request |-> r, stage |-> "accepted",
                   handed |-> r, utilization |-> "none"] : r \in HandlerRequests}

\* main.py generate_itinerary up to the call of the service
HandleRequest ==
    /\ unit.kind = "handler" /\ unit.stage = "accepted"
    /\ unit' = [unit EXCEPT !.stage = "handed", !.handed = HandledRequest(unit.request)]
    /\ UNCHANGED service_vars

\* utilization_percentage = (total_cost / request.budget) * 100
ComputeUtilization ==
    /\ unit.kind = "handler" /\ unit.stage = "handed"
    /\ unit' = [unit EXCEPT
          !.stage = "computed",
          !.utilization = IF unit.handed.budget = 0 THEN "ZeroDivisionError" ELSE "ok"]
    /\ UNCHANGED service_vars

NextHandler == HandleRequest \/ ComputeUtilization

SpecHandler == InitHandler /\ [][NextHandler]_vars

(* ======================= the response parser alone ===================== *)
(* A text is a sequence of tokens: the JSON punctuation "{" "}" "[" "]"    *)
(* ",", "p" for a member with a scalar value ("a": 1), "k" for a key with  *)
(* its colon ("a":), "n" for a scalar (a number, a string, null), "w" for  *)
(* a word of prose, "json" for that word, " " for white space and "fence" *)
(* for a markdown fence of three backticks. A parsed value is its tokens   *)
(* without white space.                                                    *)
Tokens == {"{", "}", "[", "]", ",", "p", "k", "n", "w", "json", " ", "fence"}

\* str.strip() on the left, and white space skipped by a pattern
RECURSIVE SkipWs(_)
SkipWs(s) == IF s # <<>> /\ Head(s) = " " THEN SkipWs(Tail(s)) ELSE s

RECURSIVE StripRight(_)
StripRight(s) ==
    IF s # <<>> /\ s[Len(s)] = " " THEN StripRight(SubSeq(s, 1, Len(s) - 1)) ELSE s

\* str.strip()
Strip(s) == StripRight(SkipWs(s))

NoParse == [ok |-> FALSE, val |-> <<>>, rest |-> <<>>]

(* The JSON decoder: ParseValue reads one value at the head of s and gives *)
(* [ok, val, rest]; ParseItems reads the members of an object or the       *)
(* elements of an array after the opening token or a comma.                *)
RECURSIVE ParseValue(_), ParseItems(_, _, _, _), ParseAfterItem(_, _, _)

ParseValue(s) ==
    LET t == SkipWs(s)
    IN IF t = <<>> THEN NoParse
       ELSE IF Head(t) = "n" THEN [ok |-> TRUE, val |-> <<"n">>, rest |-> Tail(t)]
       ELSE IF Head(t) = "{" THEN ParseItems(SkipWs(Tail(t)), <<"{">>, "}", TRUE)
       ELSE IF Head(t) = "[" THEN ParseItems(SkipWs(Tail(t)), <<"[">>, "]", TRUE)
       ELSE NoParse

ParseItems(t, acc, close, first) ==
    IF t = <<>> THEN NoParse
    ELSE IF first /\ Head(t) = close
    THEN [ok |-> TRUE, val |-> Append(acc, close), rest |-> Tail(t)]
    ELSE IF close = "}"
    THEN IF Head(t) = "p" THEN ParseAfterItem(Tail(t), Append(acc, "p"), close)
         ELSE IF Head(t) = "k"
         THEN LET v == ParseValue(Tail(t))
              IN IF v.ok THEN ParseAfterItem(v.rest, acc \o <<"k">> \o v.val, close)
                 ELSE NoParse
         ELSE NoParse
    ELSE LET v == ParseValue(t)
         IN IF v.ok THEN ParseAfterItem(v.rest, acc \o v.val, close) ELSE NoParse

ParseAfterItem(r, acc, close) ==
    LET u == SkipWs(r)
    IN IF u = <<>> THEN NoParse
       ELSE IF Head(u) = close
       THEN [ok |-> TRUE, val |-> Append(acc, close), rest |-> Tail(u)]
       ELSE IF Head(u) = ","
       THEN ParseItems(SkipWs(Tail(u)), Append(acc, ","), close, FALSE)
       ELSE NoParse

\* json.loads: [ok, val]; text after the value is an error
JsonLoads(s) ==
    LET v == ParseValue(s)
    IN IF v.ok /\ SkipWs(v.rest) = <<>> THEN [ok |-> TRUE, val |-> v.val]
       ELSE [ok |-> FALSE, val |-> <<>>]

\* str.find and str.rfind of one token: a position from 1, or 0 for -1
Find(s, tok) ==
    IF \E i \in 1..Len(s) : s[i] = tok
    THEN CHOOSE i \in 1..Len(s) : s[i] = tok /\ \A j \in 1..(i - 1) : s[j] # tok
    ELSE 0

RFind(s, tok) ==
    IF \E i \in 1..Len(s) : s[i] = tok
    THEN CHOOSE i \in 1..Len(s) : s[i] = tok /\ \A j \in (i + 1)..Len(s) : s[j] # tok
    ELSE 0

\* _fix_json_string, 1: a comma before white space and a closing brace or
\* bracket is removed
RECURSIVE DropTrailingCommas(_)
DropTrailingCommas(s) ==
    IF s = <<>> THEN <<>>
    ELSE IF /\ Head(s) = ","
            /\ SkipWs(Tail(s)) # <<>>
            /\ Head(SkipWs(Tail(s))) \in {"}", "]"}
    THEN DropTrailingCommas(Tail(s))
    ELSE <<Head(s)>> \o DropTrailingCommas(Tail(s))

\* _fix_json_string, 2: a comma is put between a closing and an opening
\* token, and the white space between them is removed
RECURSIVE AddCommaBetween(_, _, _)
AddCommaBetween(s, close, open) ==
    IF s = <<>> THEN <<>>
    ELSE IF /\ Head(s) = close
            /\ SkipWs(Tail(s)) # <<>>
            /\ Head(SkipWs(Tail(s))) = open
    THEN <<close, ",", open>> \o AddCommaBetween(Tail(SkipWs(Tail(s))), close, open)
    ELSE <<Head(s)>> \o AddCommaBetween(Tail(s), close, open)

\* LLMService._fix_json_string
FixJsonString(json_str) ==
    LET start_idx == Find(json_str, "{")
        end_idx == RFind(json_str, "}")
    IN IF start_idx = 0 \/ end_idx = 0 THEN json_str
       ELSE AddCommaBetween(
                AddCommaBetween(
                    DropTrailingCommas(SubSeq(json_str, start_idx, end_idx)),
                    "}", "{"),
                "]", "[")

\* _parse_json_response, step 1: the text without its markdown fence
CleanText(response_text) ==
    LET stripped == Strip(response_text)
        opened == IF Len(stripped) >= 2 /\ SubSeq(stripped, 1, 2) = <<"fence", "json">>
                  THEN SubSeq(stripped, 3, Len(stripped))
                  ELSE IF stripped # <<>> /\ Head(stripped) = "fence"
                  THEN Tail(stripped)
                  ELSE stripped
        closed == IF opened # <<>> /\ opened[Len(opened)] = "fence"
                  THEN SubSeq(opened, 1, Len(opened) - 1)
                  ELSE opened
    IN Strip(closed)

(* LLMService._parse_json_response on a text: [ok, val, via, error], via   *)
(* the step that returned, error the ValueError raised                     *)
ParseJsonText(response_text) ==
    LET cleaned_text == CleanText(response_text)
        direct == JsonLoads(cleaned_text)
        start_idx == Find(cleaned_text, "{")
        end_idx == RFind(cleaned_text, "}")
        json_str == SubSeq(cleaned_text, start_idx, end_idx)
        extracted == JsonLoads(json_str)
        fixed == JsonLoads(FixJsonString(json_str))
    IN IF direct.ok
       THEN [ok |-> TRUE, val |-> direct.val, via |-> "direct", error |-> "none"]
       ELSE IF start_idx # 0 /\ end_idx # 0
       THEN IF extracted.ok
            THEN [ok |-> TRUE, val |-> extracted.val, via |-> "extracted", error |-> "none"]
            ELSE IF fixed.ok
            THEN [ok |-> TRUE, val |-> fixed.val, via |-> "fixed", error |-> "none"]
            ELSE [ok |-> FALSE, val |-> <<>>, via |-> "none", error |-> "Failed to parse"]
       ELSE [ok |-> FALSE, val |-> <<>>, via |-> "none", error |-> "Could not find"]

(* unit is [kind, text, stage, result]: a response text and what           *)
(* _parse_json_response makes of it.                                       *)
MaxTextLen == 3

ShortTexts == UNION {[1..n -> Tokens] : n \in 0..MaxTextLen}

LongTexts ==
    {<<"{", "p", ",", "}">>, <<"{", "p", ",", " ", "}">>,
     <<"{", "p", ",", "p", ",", "}">>,
     <<"w", "{", "p", "}", "w">>, <<"w", " ", "{", "p", ",", "p", "}", " ", "w">>,
     <<"w", "{", "p", ",", "}", "w">>,
     <<"fence", "json", " ", "{", "p", "}", " ", "fence">>,
     <<"fence", "{", "p", "}", "fence">>,
     <<"{", "k", "[", "n", ",", "]", "}">>,
     <<"{", "k", "[", "{", "}", " ", "{", "}", "]", "}">>,
     <<"{", "k", "[", "[", "]", "[", "]", "]", "}">>,
     <<"w", "{", "w", "}", "{", "p", "}">>,
     <<"[", "n", ",", "n", "]">>, <<"w", " ", "w", " ", "w", " ", "w">>}

ParserTexts == ShortTexts \cup LongTexts

NoParseResult == [ok |-> FALSE, val |-> <<>>, via |-> "none", error |-> "none"]

InitParser ==
    /\ ServiceInit
    /\ unit \in {[kind |-> "parser", text |-> t, stage |-> "received",
                   result |-> NoParseResult] : t \in ParserTexts}

\* self._parse_json_response(response_text)
ParseText ==
    /\ unit.kind = "parser" /\ unit.stage = "received"
    /\ unit' = [unit EXCEPT !.stage = "parsed", !.result = ParseJsonText(unit.text)]
    /\ UNCHANGED service_vars

NextParser == ParseText

SpecParser == InitParser /\ [][NextParser]_vars

(* ================ one validated document of one attempt ================ *)
(* unit is [kind, budget, total, tolerance, max_retries, used, stage,      *)
(* under, valid_at, call]: a positive budget, the total cost of the        *)
(* document an attempt 0 obtained, a tolerance a BudgetValidator may be    *)
(* built with, the max_retries of the call and whether its optimization    *)
(* retry is used up; then whether the utilization is below the threshold,  *)
(* whether the document is valid at that tolerance, and the call as        *)
(* generate_with_budget_constraint leaves it after the document (with the  *)
(* validator it builds, of the default tolerance).                         *)
AttemptBudgets == {1, 3, 100, 1000}
AttemptTotals == {0, 1, 2, 3, 4, 74, 75, 76, 100, 105, 106, 749, 750, 751, 1000, 1050, 1051, 1200}
AttemptTolerances == {0, 5, 20}

\* a document whose embedded breakdown sums to total
DocOfTotal(total) ==
    [GoodDoc(400) EXCEPT
        !.budget_breakdown = [k \in {BreakdownKeys[i] : i \in 1..5} |->
            IF k = "accommodation_total" THEN Num(total) ELSE Num(0)]]

\* total_cost <= user_budget * (1 + tolerance / 100) of a validator built
\* with tolerance_percentage = tolerance
WithinToleranceOf(num, den, user_budget, tolerance) ==
    num * 100 <= user_budget * (100 + tolerance) * den

InitAttempt ==
    /\ ServiceInit
    /\ unit \in {[kind |-> "attempt", budget |-> b, total |-> t, tolerance |-> tol,
                   max_retries |-> m, used |-> u, stage |-> "generated",
                   under |-> FALSE, valid_at |-> FALSE, call |-> IdleCall] :
                      b \in AttemptBudgets, t \in AttemptTotals,
                      tol \in AttemptTolerances, m \in {0, 1}, u \in BOOLEAN}

\* the attempt validates its document and decides what follows
JudgeAttempt ==
    LET c == [IdleCall EXCEPT !.pc = "attempt",
                              !.request = [RaceRequest EXCEPT !.budget = unit.budget],
                              !.max_retries = unit.max_retries,
                              !.budget_utilization_retry_used = unit.used]
        data == [src |-> 1, rc |-> 0, key |-> KeyOf(c), body |-> DocOfTotal(unit.total)]
    IN /\ unit.kind = "attempt" /\ unit.stage = "generated"
       /\ unit' = [unit EXCEPT
             !.stage = "judged",
             !.under = UnderUtilized(unit.total, 1, unit.budget),
             !.valid_at = WithinToleranceOf(unit.total, 1, unit.budget, unit.tolerance),
             !.call = AfterGenerate(1, c, BaseTemplate, data).c]
       /\ UNCHANGED service_vars

NextAttemptUnit == JudgeAttempt

SpecAttempt == InitAttempt /\ [][NextAttemptUnit]_vars

(* ================== SimpleCache.set on a filled cache ================== *)
(* unit is [kind, cache, t, sets, before, room, last]: a SimpleCache that  *)
(* a sequence of set calls has filled, the clock, the number of further    *)
(* set calls made, and of the last of them the cache before it, the dict   *)
(* between its eviction and its assignment, and the entry it stored.       *)
EvictSizes == {0, 1, 2, 10, 20}
MaxFill == 21
MaxEvictSets == 1
EvictTtl == 100
FillPatterns == {"ascending", "same", "refreshed"}

\* set(k, ..), set(k + 1, ..), ..., set(n, ..), at one time or at times k..n
RECURSIVE FillCache(_, _, _, _)
FillCache(c, k, n, same) ==
    IF k > n THEN c
    ELSE FillCache(CacheSet(c, k, 10 * k, EvictTtl, IF same THEN 0 ELSE k),
                   k + 1, n, same)

(* what n set calls leave of a new cache: keys 1..n at times 1..n, or all  *)
(* at time 0, or keys 1..n-1, then key 1 once more, then key n             *)
FilledCache(max_size, n, pattern) ==
    IF pattern = "refreshed" /\ n >= 2
    THEN CacheSet(CacheSet(FillCache(NewCache(max_size), 1, n - 1, FALSE),
                           1, 11, EvictTtl, n),
                  n, 10 * n, EvictTtl, n + 1)
    ELSE FillCache(NewCache(max_size), 1, n, pattern = "same")

FilledAt(n, pattern) ==
    IF pattern = "same" THEN 0
    ELSE IF pattern = "refreshed" /\ n >= 2 THEN n + 1 ELSE n

InitEvict ==
    /\ ServiceInit
    /\ unit \in {[kind |-> "evict", cache |-> FilledCache(m, n, pat),
                   t |-> FilledAt(n, pat), sets |-> 0,
                   before |-> NewCache(m), room |-> <<>>,
                   last |-> CacheEntry(0, 0, 0, 0)] :
                     m \in EvictSizes, n \in 0..MaxFill, pat \in FillPatterns}

\* cache.set(key, value, EvictTtl) after `wait` seconds
EvictSet(key, value, wait) ==
    /\ unit.kind = "evict"
    /\ unit.sets < MaxEvictSets
    /\ unit' = [unit EXCEPT
          !.cache = CacheSet(unit.cache, key, value, EvictTtl, unit.t + wait),
          !.t = @ + wait, !.sets = @ + 1,
          !.before = unit.cache, !.room = RoomFor(unit.cache),
          !.last = CacheEntry(key, value, EvictTtl, unit.t + wait)]
    /\ UNCHANGED service_vars

NextEvict ==
    \E key \in {1, 5, MaxFill + 1}, wait \in {0, 1} : EvictSet(key, 7, wait)

SpecEvict == InitEvict /\ [][NextEvict]_vars

(* ================== the counters of a SimpleCache ====================== *)
(* unit is [kind, cache, t, ops, gets, last, stats]: a SimpleCache, the    *)
(* clock, the number of get, set and clear calls made and the number of    *)
(* get calls among them, the last call, and what the last stats() call     *)
(* returned.                                                               *)
MaxCounterOps == 4
MaxCounterTime == 2
CounterKeys == {1, 2}
CounterSizes == {1, 2}
CounterTtls == {0, 2}

(* SimpleCache.stats; hit_rate is the number of tenths of a per cent that  *)
(* the format .1f prints                                                   *)
CacheStats(c) ==
    LET total_requests == c.hits + c.misses
    IN [size |-> Len(c.store), max_size |-> c.max_size,
        hits |-> c.hits, misses |-> c.misses,
        hit_rate |-> IF total_requests > 0
                     THEN RoundDiv(c.hits * 1000, total_requests) ELSE 0,
        total_requests |-> total_requests]

NoCacheStats == [none |-> TRUE]

InitCounters ==
    /\ ServiceInit
    /\ unit \in {[kind |-> "counters", cache |-> NewCache(m), t |-> 0, ops |-> 0,
                   gets |-> 0, last |-> [op |-> "none", key |-> 0],
                   stats |-> NoCacheStats] : m \in CounterSizes}

\* cache.get(key)
CountersGet(key) ==
    /\ unit.kind = "counters" /\ unit.ops < MaxCounterOps
    /\ unit' = [unit EXCEPT !.cache = CacheGetState(unit.cache, key, unit.t),
                            !.ops = @ + 1, !.gets = @ + 1,
                            !.last = [op |-> "get", key |-> key]]
    /\ UNCHANGED service_vars

\* cache.set(key, value, ttl)
CountersSet(key, ttl) ==
    /\ unit.kind = "counters" /\ unit.ops < MaxCounterOps
    /\ unit' = [unit EXCEPT !.cache = CacheSet(unit.cache, key, 10, ttl, unit.t),
                            !.ops = @ + 1,
                            !.last = [op |-> "set", key |-> key]]
    /\ UNCHANGED service_vars

\* cache.clear()
CountersClear ==
    /\ unit.kind = "counters" /\ unit.ops < MaxCounterOps
    /\ unit' = [unit EXCEPT !.cache = CacheClear(unit.cache), !.ops = @ + 1,
                            !.last = [op |-> "clear", key |-> 0]]
    /\ UNCHANGED service_vars

\* cache.stats()
CountersStats ==
    /\ unit.kind = "counters"
    /\ unit.last.op # "stats"
    /\ unit' = [unit EXCEPT !.stats = CacheStats(unit.cache),
                            !.last = [op |-> "stats", key |-> 0]]
    /\ UNCHANGED service_vars

\* time.time() advances
CountersTick ==
    /\ unit.kind = "counters"
    /\ unit.t < MaxCounterTime
    /\ unit.cache.store # <<>>
    /\ unit' = [unit EXCEPT !.t = @ + 1]
    /\ UNCHANGED service_vars

NextCounters ==
    \/ \E k \in CounterKeys : CountersGet(k)
    \/ \E k \in CounterKeys, ttl \in CounterTtls : CountersSet(k, ttl)
    \/ CountersClear
    \/ CountersStats
    \/ CountersTick

SpecCounters == InitCounters /\ [][NextCounters]_vars

(* ============== the error of a response that does not parse ============ *)
(* unit is [kind, text, retry_count, writable, stage, error]: the text of  *)
(* a model response, the retry_count of the generation, whether the debug  *)
(* file can be written, and the exception generate_itinerary raises. An    *)
(* error is [raised, wording, detail, preview]: the fixed wording of its   *)
(* text, the kind of the exception whose str() is put into it, and the     *)
(* characters of the response put into it.                                 *)
PreviewChars == 300

\* the length of the words of prose in the sample responses
WordChars == 60

\* the characters a token stands for
TokenText(tok) ==
    IF tok = "fence" THEN <<"`", "`", "`">>
    ELSE IF tok = "json" THEN <<"j", "s", "o", "n">>
    ELSE IF tok = "p" THEN <<"'", "a", "'", ":", "1">>
    ELSE IF tok = "k" THEN <<"'", "a", "'", ":">>
    ELSE IF tok = "n" THEN <<"1">>
    ELSE IF tok = "w" THEN [i \in 1..WordChars |-> "x"]
    ELSE <<tok>>

\* a text as the string of its characters
RECURSIVE Spell(_)
Spell(text) == IF text = <<>> THEN <<>> ELSE TokenText(Head(text)) \o Spell(Tail(text))

\* a preview that is the whole response
PreviewWhole(response_text) == Spell(response_text)

\* response_text[:300]
Preview(response_text) ==
    LET chars == Spell(response_text)
    IN SubSeq(chars, 1, IF Len(chars) < PreviewChars THEN Len(chars) ELSE PreviewChars)

NoError == [raised |-> FALSE, wording |-> "", detail |-> "none", preview |-> <<>>]

ErrorOf(wording, detail, preview) ==
    [raised |-> TRUE, wording |-> wording, detail |-> detail, preview |-> preview]

(* generate_itinerary from the response text to its end: the Exception it  *)
(* raises, whose text is "Error generating itinerary: " and the text of    *)
(* the exception caught, or NoError when it returns                        *)
GenerateError(text, retry_count, writable) ==
    LET response_text == Strip(text)
        parsed == ParseJsonText(response_text)
    IN IF response_text = <<>>
       THEN ErrorOf("Empty response from API", "none", <<>>)
       ELSE IF response_text[Len(response_text)] # "}" /\ retry_count = 0
       THEN ErrorOf("Response appears truncated", "none", <<>>)
       ELSE IF parsed.ok THEN NoError
       ELSE IF parsed.error = "Failed to parse"
       THEN IF writable
            THEN ErrorOf("Failed to parse JSON response after multiple attempts",
                         "JSONDecodeError", Preview(response_text))
            ELSE ErrorOf("", "OSError", <<>>)
       ELSE ErrorOf("Could not find JSON object in response", "none",
                    Preview(response_text))

\* n times the token tok
Repeat(tok, n) == [i \in 1..n |-> tok]

\* prose of n characters: words, then digits
Prose(n) == Repeat("w", n \div WordChars) \o Repeat("n", n % WordChars)

\* responses of n characters: prose, an opened object, broken objects
OutputsOf(n) ==
    {Prose(n),
     <<"{">> \o Prose(n - 1),
     <<"{">> \o Prose(n - 2) \o <<"}">>,
     <<"fence">> \o Prose(n - 6) \o <<"fence">>,
     <<"{", "p", ",">> \o Prose(n - 8) \o <<"}">>}

LongOutputs ==
    UNION {OutputsOf(n) : n \in {PreviewChars - 1, PreviewChars, PreviewChars + 1,
                                 PreviewChars + 100}}

ErrorTexts == ParserTexts \cup LongOutputs

InitError ==
    /\ ServiceInit
    /\ unit \in {[kind |-> "error", text |-> t, retry_count |-> rc, writable |-> w,
                   stage |-> "received", error |-> NoError] :
                      t \in ErrorTexts, rc \in {0, 1}, w \in BOOLEAN}

\* generate_itinerary handles the response
RaiseError ==
    /\ unit.kind = "error" /\ unit.stage = "received"
    /\ unit' = [unit EXCEPT
          !.stage = "done",
          !.error = GenerateError(unit.text, unit.retry_count, unit.writable)]
    /\ UNCHANGED service_vars

NextError == RaiseError

SpecError == InitError /\ [][NextError]_vars

(* ============= the breakdown validate_budget returns ================== *)
(* unit is [kind, doc, stage, result]: a parsed document and what          *)
(* validate_budget makes of it for a budget of 1000.                       *)
BreakdownAmounts == {Num(0), Num(100), Num(0 - 100)}

EmbeddedBreakdowns ==
    {[k \in {BreakdownKeys[i] : i \in 1..5} |->
        CASE k = "accommodation_total" -> a
          [] k = "transportation_total" -> t
          [] k = "miscellaneous" -> m
          [] OTHER -> Num(100)] :
        a \in BreakdownAmounts, t \in BreakdownAmounts, m \in BreakdownAmounts}

\* documents without budget_breakdown
ItemizedDocs ==
    {[ItemizedDoc EXCEPT !.duration = d, !.accommodation_suggestions = acc,
                         !.to_destination = <<to>>, !.local_transport = loc,
                         !.itinerary = <<[activities |-> <<act, Num(30)>>,
                                          food_recommendations |-> <<Num(20)>>]>>] :
        d \in {0, 1, 3},
        acc \in {<<>>, <<Num(100)>>, <<Num(100), Num(151)>>,
                 <<Num(100), Num(100), Num(200)>>},
        to \in {Num(200), Num(0 - 50)},
        loc \in {<<>>, <<Num(10), Num(5)>>},
        act \in {Num(50), Num(0 - 500)}}

BreakdownDocs ==
    {[ItemizedDoc EXCEPT !.has_breakdown = TRUE, !.budget_breakdown = bb] :
        bb \in EmbeddedBreakdowns}
    \cup ItemizedDocs

InitBreakdown ==
    /\ ServiceInit
    /\ unit \in {[kind |-> "breakdown", doc |-> d, stage |-> "new",
                   result |-> NoResult] : d \in BreakdownDocs}

\* validator.validate_budget(itinerary_data, 1000)
ValidateDoc ==
    /\ unit.kind = "breakdown" /\ unit.stage = "new"
    /\ unit' = [unit EXCEPT !.stage = "validated",
                            !.result = ValidateBudget(unit.doc, 1000)]
    /\ UNCHANGED service_vars

NextBreakdown == ValidateDoc

SpecBreakdown == InitBreakdown /\ [][NextBreakdown]_vars

(* ================== the rate limiter and two clients =================== *)
(* unit is [kind, requests, t, sent, last, h_ok]: the dict of the          *)
(* RateLimitMiddleware object, the clock in seconds, per client the number *)
(* of requests sent, the last request with its answer, and as history per  *)
(* client the number of limited requests let through at each time. The     *)
(* second client is one without a peer address, whose requests are all     *)
(* recorded under "unknown".                                               *)
MaxBusyRequests == 23
MaxOtherRequests == 2
LimitedClients == {"10.0.0.7", "unknown"}
ClientPaths == {"/stats", "/generate-itinerary"}

MaxSent(client_ip) ==
    IF client_ip = "unknown" THEN MaxOtherRequests ELSE MaxBusyRequests

NoClientRequest == [client |-> "", path |-> "", status |-> 0]

InitClients ==
    /\ ServiceInit
    /\ unit = [kind |-> "clients", requests |-> [c \in LimitedClients |-> <<>>],
               t |-> 0, sent |-> [c \in LimitedClients |-> 0],
               last |-> NoClientRequest,
               h_ok |-> [c \in LimitedClients |-> [x \in RateTimes |-> 0]]]

\* a request of client_ip for path passes the middleware
ClientRequest(client_ip, path) ==
    LET r == RateLimit(unit.requests, client_ip, path, unit.t)
    IN /\ unit.kind = "clients"
       /\ unit.sent[client_ip] < MaxSent(client_ip)
       /\ unit' = [unit EXCEPT
             !.requests = r.requests,
             !.sent[client_ip] = @ + 1,
             !.last = [client |-> client_ip, path |-> path, status |-> r.status],
             !.h_ok[client_ip][unit.t] =
                 IF path \notin ExemptPaths /\ r.status = 200 THEN @ + 1 ELSE @]
       /\ UNCHANGED service_vars

\* time.time() advances
ClientsTick ==
    /\ unit.kind = "clients"
    /\ unit.t + RateTickSeconds <= MaxRateTime
    /\ unit' = [unit EXCEPT !.t = @ + RateTickSeconds]
    /\ UNCHANGED service_vars

NextClients ==
    \/ \E c \in LimitedClients, p \in ClientPaths : ClientRequest(c, p)
    \/ ClientsTick

SpecClients == InitClients /\ [][NextClients]_vars

(* ========================= the weather service ========================= *)
(* unit is [kind, cache, i, calls, last]: weather_cache, the position of   *)
(* the clock in WeatherTimes, the number of calls made and the last call:  *)
(* [op, destination, days, at, geo_called, fc_called, result].             *)
\* cache.py: weather_cache = SimpleCache(max_size=500)
WEATHER_CACHE_MAX_SIZE == 500
\* cache.py: WEATHER_CACHE_TTL = 6 * 60 * 60 seconds, in hours
WEATHER_CACHE_TTL == 6
\* weather_service.py: ttl_seconds=7*24*60*60, in hours
GEOCODE_TTL == 168
MaxWeatherCalls == 3
\* the instants, in hours, at which calls are made
WeatherTimes == <<0, 4, 8, 20, 25, 164, 168, 172>>
WeatherDestinations == {StrGoa, StrGOA, StrRome}
WeatherDays == 2

\* f"geocode:{destination.lower()}"
GeocodeKey(destination) == <<"geocode", LowerStr(destination)>>

\* f"forecast:{destination.lower()}:{duration_days}:{date}", date being the
\* day of datetime.now()
ForecastKey(destination, duration_days, t) ==
    <<"forecast", LowerStr(destination), duration_days, t \div 24>>

NoCoords == [none |-> TRUE]
\* (latitude, longitude) of the first result for a name
CoordsOf(destination) == [place |-> LowerStr(destination)]
\* the daily summaries built from a response
ForecastsOf(coords, duration_days, t) ==
    [d \in 1..duration_days |-> [day |-> d, date |-> t \div 24 + d - 1, at |-> coords]]

\* get_coordinates that caches the lack of a result
GetCoordinatesCachesNone(cache, destination, api, t) ==
    LET key == GeocodeKey(destination)
        looked == CacheGetState(cache, key, t)
    IN IF CacheGetHit(cache, key, t)
       THEN [cache |-> looked, coords |-> CacheGetValue(cache, key), called |-> FALSE]
       ELSE IF api = "ok"
       THEN [cache |-> CacheSet(looked, key, CoordsOf(destination), GEOCODE_TTL, t),
             coords |-> CoordsOf(destination), called |-> TRUE]
       ELSE [cache |-> CacheSet(looked, key, NoCoords, GEOCODE_TTL, t),
             coords |-> NoCoords, called |-> TRUE]

(* WeatherService.get_coordinates: [cache, coords, called]; api is what    *)
(* the geocoding API does when asked: "ok", "none" (no results), "error"   *)
GetCoordinates(cache, destination, api, t) ==
    LET key == GeocodeKey(destination)
        looked == CacheGetState(cache, key, t)
    IN IF CacheGetHit(cache, key, t)
       THEN [cache |-> looked, coords |-> CacheGetValue(cache, key), called |-> FALSE]
       ELSE IF api = "ok"
       THEN [cache |-> CacheSet(looked, key, CoordsOf(destination), GEOCODE_TTL, t),
             coords |-> CoordsOf(destination), called |-> TRUE]
       ELSE [cache |-> looked, coords |-> NoCoords, called |-> TRUE]

(* WeatherService.get_weather_forecast with start_date = None: [cache,     *)
(* result, geo_called, fc_called]; fc_api is what the forecast API does:   *)
(* "ok", "empty" (a response without daily data), "error"                  *)
GetWeatherForecast(cache, destination, duration_days, geo_api, fc_api, t) ==
    LET key == ForecastKey(destination, duration_days, t)
        looked == CacheGetState(cache, key, t)
        g == GetCoordinates(looked, destination, geo_api, t)
        forecasts == IF fc_api = "ok" THEN ForecastsOf(g.coords, duration_days, t)
                     ELSE <<>>
    IN IF CacheGetHit(cache, key, t)
       THEN [cache |-> looked, result |-> CacheGetValue(cache, key),
             geo_called |-> FALSE, fc_called |-> FALSE]
       ELSE IF g.coords = NoCoords
       THEN [cache |-> g.cache, result |-> <<>>, geo_called |-> g.called,
             fc_called |-> FALSE]
       ELSE IF fc_api = "error"
       THEN [cache |-> g.cache, result |-> <<>>, geo_called |-> g.called,
             fc_called |-> TRUE]
       ELSE [cache |-> CacheSet(g.cache, key, forecasts, WEATHER_CACHE_TTL, t),
             result |-> forecasts, geo_called |-> g.called, fc_called |-> TRUE]

NoWeatherCall ==
    [op |-> "none", destination |-> <<>>, days |-> 0, at |-> 0, geo_called |-> FALSE,
     fc_called |-> FALSE, geo_api |-> "", fc_api |-> "", result |-> <<>>]

InitWeather ==
    /\ ServiceInit
    /\ unit = [kind |-> "weather", cache |-> NewCache(WEATHER_CACHE_MAX_SIZE), i |-> 1,
               calls |-> 0, last |-> NoWeatherCall]

\* weather_service.get_weather_forecast(destination, WeatherDays)
CallForecast(destination, geo_api, fc_api) ==
    LET t == WeatherTimes[unit.i]
        r == GetWeatherForecast(unit.cache, destination, WeatherDays, geo_api, fc_api, t)
    IN /\ unit.kind = "weather"
       /\ unit.calls < MaxWeatherCalls
       /\ unit' = [unit EXCEPT
             !.cache = r.cache, !.calls = @ + 1,
             !.last = [op |-> "forecast", destination |-> destination,
                       days |-> WeatherDays, at |-> t,
                       geo_called |-> r.geo_called, fc_called |-> r.fc_called,
                       geo_api |-> IF r.geo_called THEN geo_api ELSE "",
                       fc_api |-> IF r.fc_called THEN fc_api ELSE "",
                       result |-> r.result]]
       /\ UNCHANGED service_vars

\* weather_service.get_coordinates(destination)
CallCoordinates(destination, geo_api) ==
    LET t == WeatherTimes[unit.i]
        g == GetCoordinates(unit.cache, destination, geo_api, t)
    IN /\ unit.kind = "weather"
       /\ unit.calls < MaxWeatherCalls
       /\ unit' = [unit EXCEPT
             !.cache = g.cache, !.calls = @ + 1,
             !.last = [op |-> "coordinates", destination |-> destination,
                       days |-> 0, at |-> t,
                       geo_called |-> g.called, fc_called |-> FALSE,
                       geo_api |-> IF g.called THEN geo_api ELSE "",
                       fc_api |-> "", result |-> g.coords]]
       /\ UNCHANGED service_vars

\* time passes
WeatherTick ==
    /\ unit.kind = "weather"
    /\ unit.i < Len(WeatherTimes)
    /\ unit.calls \in 1..(MaxWeatherCalls - 1)
    /\ unit' = [unit EXCEPT !.i = @ + 1]
    /\ UNCHANGED service_vars

NextWeather ==
    \/ \E d \in WeatherDestinations, g \in {"ok", "none", "error"},
          f \in {"ok", "empty", "error"} : CallForecast(d, g, f)
    \/ \E d \in WeatherDestinations, g \in {"ok", "none", "error"} :
          CallCoordinates(d, g)
    \/ WeatherTick

SpecWeather == InitWeather /\ [][NextWeather]_vars

(* ================= one call, run to its end ========================== *)
(* One thread makes one call of generate_with_budget_constraint and keeps  *)
(* running it: the interpreter executes the next statement of the call,    *)
(* and a request to the model comes back with a response or an exception.  *)
(* max_retries is small enough for every request of the call to fit into   *)
(* MaxModelCalls.                                                          *)
TerminateRetries == MaxModelCalls - 2

\* the thread enters generate_with_budget_constraint
TerminateStart(p, request, max_retries, weather_context) ==
    /\ call[p].pc = "idle"
    /\ Start(p, request, max_retries, weather_context)

\* the model answers the request the call of p waits for
AnyModelReply(p) == \E resp \in Responses : ModelReply(p, resp)

AnyOptimizeReply(p) == \E resp \in Responses : OptimizeReply(p, resp)

(* weak fairness of BeginOptimize(p), written with its enabling condition: *)
(* the step is enabled exactly while the call is at "optimize", and it is  *)
(* the only step that takes the call away from there                       *)
FairBeginOptimize(p) ==
    \/ []<>(call[p].pc # "optimize")
    \/ []<><<call[p].pc = "optimize" /\ call'[p].pc # "optimize">>_vars

\* the thread keeps running its call, and the model answers every request
CallFairness(p) ==
    /\ WF_vars(BeginAttempt(p))
    /\ WF_vars(AnyModelReply(p))
    /\ FairBeginOptimize(p)
    /\ WF_vars(AnyOptimizeReply(p))

NextTerminate ==
    \/ \E p \in SeqCallers, i \in CallInputs, m \in 0..TerminateRetries :
          TerminateStart(p, i[1], m, i[2])
    \/ \E p \in SeqCallers : BeginAttempt(p)
    \/ \E p \in SeqCallers, resp \in Responses : ModelReply(p, resp)
    \/ \E p \in SeqCallers : BeginOptimize(p)
    \/ \E p \in SeqCallers, resp \in Responses : OptimizeReply(p, resp)
    \/ Tick

SpecTerminate ==
    Init /\ [][NextTerminate]_vars /\ \A p \in SeqCallers : CallFairness(p)

(* ============================== claims ================================ *)
Terminal(c) == c.pc \in {"returned", "raised"}

Entries == {llm_cache.store[i] : i \in 1..Len(llm_cache.store)}

\* the budget of the request a cache key was built from
BudgetOfKey(key) ==
    (CHOOSE i \in CallInputs : CacheKey(i[1], i[2]) = key)[1].budget

\* the sum of the five fields of an embedded breakdown
EmbeddedTotal(body) ==
    SumSeq([i \in 1..5 |-> body.budget_breakdown[BreakdownKeys[i]].v])

\* every model response of the call so far was parsed and validated over
\* budget, in a call that began on an empty cache
AllOverBudget(c) ==
    c.h_start_empty /\ ~c.h_hit0 /\ c.h_model = c.h_over

(* C1 as stated: from an empty cache, when every model response parses and *)
(* validates over budget the call invokes the model max_retries + 1 times, *)
(* returns the last document as over_budget and never raises (here for a   *)
(* request with the positive budget that TravelRequest demands).           *)
C1_Original ==
    \A p \in Callers :
        LET c == call[p]
        IN (Terminal(c) /\ AllOverBudget(c) /\ c.request.budget > 0)
           => /\ c.pc = "returned"
              /\ c.budget_status = "over_budget"
              /\ c.h_model = c.max_retries + 1
              /\ c.itinerary_data.src = serial

(* C1 amended: from an empty cache, when every model response parses and   *)
(* validates over budget the call invokes the model exactly                *)
(* max_retries + 1 times and ends in the last attempt; it returns the last *)
(* document as over_budget when that document fits the TravelResponse      *)
(* schema, raises the schema's validation error when it does not, and      *)
(* raises ZeroDivisionError when the request budget is 0.                  *)
C1_ExhaustedOverBudget ==
    \A p \in Callers :
        LET c == call[p]
        IN (Terminal(c) /\ AllOverBudget(c))
           => /\ c.h_model = c.max_retries + 1
              /\ c.attempt = c.max_retries
              /\ c.itinerary_data.src = serial
              /\ c.itinerary_data.rc = c.max_retries
              /\ IF c.request.budget = 0
                 THEN c.pc = "raised" /\ c.h_raised_by = "utilization"
                 ELSE IF ConstructOutcome(c.itinerary_data.body) = "ok"
                 THEN c.pc = "returned" /\ c.budget_status = "over_budget"
                 ELSE c.pc = "raised" /\ c.h_raised_by = "construct"

C1_Witness ==
    \E p \in Callers :
        LET c == call[p]
        IN /\ c.pc = "returned" /\ AllOverBudget(c)
           /\ c.max_retries = 2 /\ c.h_model = 3
           /\ c.budget_status = "over_budget"

\* the step of p is the cache hit of attempt 0
Hit0Step(p) ==
    /\ call[p].pc = "attempt"
    /\ call[p].attempt = 0
    /\ CacheGetHit(llm_cache, KeyOf(call[p]), now)
    /\ call'[p] # call[p]

C3_Original ==
    /\ \A e \in Entries : ValidateBudget(e.value.body, BudgetOfKey(e.key)).is_valid
    /\ \A p \in Callers : call[p].pc = "returned" => call[p].h_sets <= 1

(* C3 amended: every cache entry holds a document parsed from the model's  *)
(* response to a retry_count = 0 generation (attempt 0 or the optimization *)
(* retry) for the request of its key, stored before any budget validation  *)
(* (so it may be over budget); a call writes the cache at most once per    *)
(* such model call, at most twice in all.                                  *)
C3_CacheHoldsParsedFirstTries ==
    /\ \A e \in Entries :
          /\ e.value.rc = 0
          /\ e.value.key = e.key
          /\ e.value.src \in 1..serial
          /\ e.value.body \in SampleDocs
    /\ \A p \in Callers : call[p].h_sets <= 2 /\ call[p].h_sets <= call[p].h_model

C3_Witness ==
    \E e \in Entries : ~ValidateBudget(e.value.body, BudgetOfKey(e.key)).is_valid

(* C4 as stated: when a call returns a document the cache holds exactly    *)
(* that document under the key of the request.                             *)
C4_Original ==
    \A p \in Callers :
        LET c == call[p]
        IN c.pc = "returned"
           => /\ HasKey(llm_cache.store, KeyOf(c))
              /\ EntryOf(llm_cache.store, KeyOf(c)).value = c.itinerary_data

(* C4 amended: when a call returns a document generated at an attempt >= 1 *)
(* that document is not in the cache (which keeps the document of          *)
(* attempt 0, if any); when it returns a document of a retry_count = 0     *)
(* generation the cache holds exactly that document under the key of the   *)
(* request, or no entry for the key (the entry expired and was purged).    *)
C4_ReturnedVersusCached ==
    \A p \in Callers :
        LET c == call[p]
            d == c.itinerary_data
        IN c.pc = "returned"
           => IF d.rc > 0
              THEN \A e \in Entries : e.value # d
              ELSE \/ ~HasKey(llm_cache.store, KeyOf(c))
                   \/ EntryOf(llm_cache.store, KeyOf(c)).value = d

C4_Witness ==
    \E p \in Callers :
        LET c == call[p]
        IN /\ c.pc = "returned" /\ c.itinerary_data.rc > 0
           /\ HasKey(llm_cache.store, KeyOf(c))
           /\ EntryOf(llm_cache.store, KeyOf(c)).value # c.itinerary_data

\* an earlier call returned the document the cache held for the request
\* when call c began, as within_budget
ServedBefore(c) ==
    /\ c.h_start_entry # NoDoc
    /\ \E r \in returned_docs :
          /\ r.call_no < c.h_call_no
          /\ r.key = KeyOf(c)
          /\ r.doc = c.h_start_entry
          /\ r.status = "within_budget"

C6_Original ==
    \A p \in Callers :
        LET c == call[p]
        IN (/\ c.h_opt \in {"done", "failed_generate", "failed_validate"}
            /\ c.h_opt_attempt = 0
            /\ ~c.h_hit0)
           => c.h_opt_model = 1

(* C7 as stated: when the optimization retry fails, the call returns the   *)
(* original document as within_budget and the failure does not reach the   *)
(* caller (here for an original that fits the TravelResponse schema).      *)
C7_Original ==
    \A p \in Callers :
        LET c == call[p]
        IN (/\ c.h_opt \in {"failed_generate", "failed_validate"}
            /\ ConstructOutcome(c.h_original.body) = "ok")
           => /\ c.pc = "returned"
              /\ c.itinerary_data = c.h_original
              /\ c.budget_status = "within_budget"

(* C8: the budget_status of a returned document is the outcome of          *)
(* validating that same document against the request budget:               *)
(* within_budget iff its total is at most budget * (1 + tolerance / 100).  *)
C8_StatusOfReturnedDocument ==
    \A p \in Callers :
        LET c == call[p]
        IN c.pc = "returned"
           => /\ c.h_judged = c.itinerary_data
              /\ c.budget_status \in {"within_budget", "over_budget"}
              /\ (c.budget_status = "within_budget")
                 <=> (EmbeddedTotal(c.itinerary_data.body) * 100
                        <= c.request.budget * (100 + TolerancePercentage))

C8_Witness ==
    \E p \in Callers :
        LET c == call[p]
        IN /\ c.pc = "returned" /\ c.h_opt = "done"
           /\ c.itinerary_data.src # c.h_original.src
           /\ c.budget_status = "within_budget"

\* the step of p is a model response that fails to parse
ParseFailStep(p) ==
    /\ call[p].pc = "api"
    /\ call'[p].h_model = call[p].h_model + 1
    /\ call'[p].h_fail = "parse"
    /\ call'[p].h_fail_attempt = call[p].attempt

(* C9: a parse failure of the response of attempt k < max_retries moves    *)
(* the call to attempt k + 1; a parse failure of attempt k = max_retries   *)
(* ends the call with an error and no document.                            *)
C9_ParseFailureRetried ==
    [][\A p \in Callers :
          ParseFailStep(p)
          => IF call[p].attempt < call[p].max_retries
             THEN /\ call'[p].pc = "attempt"
                  /\ call'[p].attempt = call[p].attempt + 1
             ELSE /\ call'[p].pc = "raised"
                  /\ call'[p].budget_status = ""]_vars

C9_Witness ==
    \E p \in Callers :
        LET c == call[p]
        IN /\ c.h_fail = "parse" /\ c.h_fail_attempt < c.max_retries
           /\ c.pc = "attempt" /\ c.attempt = c.h_fail_attempt + 1

(* C10 as stated: an exception that is not a parse failure reaches the     *)
(* caller only from the last attempt.                                      *)
C10_Original ==
    \A p \in Callers :
        LET c == call[p]
        IN (c.pc = "raised" /\ c.h_raised_by # "parse")
           => c.attempt = c.max_retries

\* the step of p receives a response whose text does not end with "}"
CutReplyStep(p) ==
    /\ call[p].pc \in {"api", "optapi"}
    /\ call'[p].h_model = call[p].h_model + 1
    /\ call'[p].h_cut

(* C11 as stated: a response whose text does not end with a closing brace  *)
(* is, on attempt 0, rejected before the parser is called and forces       *)
(* attempt 1; on an attempt >= 1 it is passed to the parser.               *)
C11_Original ==
    [][\A p \in Callers :
          (CutReplyStep(p) /\ call[p].pc = "api")
          => IF call[p].attempt = 0
             THEN /\ call'[p].h_parser = call[p].h_parser
                  /\ call'[p].pc = "attempt"
                  /\ call'[p].attempt = 1
             ELSE call'[p].h_parser = call[p].h_parser + 1]_vars

(* C11 amended: a response whose text does not end with a closing brace    *)
(* is rejected before the parser is called whenever it answers a           *)
(* retry_count = 0 generation. At attempt 0 the rejection moves the call   *)
(* to attempt 1 when max_retries >= 1 and ends it with an error when       *)
(* max_retries = 0; in the optimization retry the rejection is one more    *)
(* failure of that retry. The same response to the generation of an        *)
(* attempt >= 1 is passed to the parser.                                   *)
C11_TruncationRetry ==
    [][\A p \in Callers :
          CutReplyStep(p)
          => IF call[p].pc = "optapi"
             THEN /\ call'[p].h_parser = call[p].h_parser
                  /\ call'[p].h_opt = "failed_generate"
             ELSE IF call[p].attempt = 0
             THEN /\ call'[p].h_parser = call[p].h_parser
                  /\ call'[p].h_fail = "truncated"
                  /\ IF call[p].max_retries >= 1
                     THEN call'[p].pc = "attempt" /\ call'[p].attempt = 1
                     ELSE call'[p].pc = "raised"
             ELSE call'[p].h_parser = call[p].h_parser + 1]_vars

C11_Witness ==
    \E p \in Callers :
        LET c == call[p]
        IN /\ c.pc = "returned" /\ c.h_cut
           /\ c.h_fail = "truncated" /\ c.h_fail_attempt = 0
           /\ c.itinerary_data.rc = 1
           /\ c.h_parser = 1 /\ c.h_model = 2

\* the step is a get of key
UnitGetStep(key) ==
    /\ unit'.ops = unit.ops + 1
    /\ unit'.last.op = "get"
    /\ unit'.last.key = key

(* C12: with no eviction or clear since the latest set(k, v, ttl), made at *)
(* time s, a get(k) at a time t <= s + ttl returns v and leaves the store  *)
(* as it is, and a get(k) at a time t > s + ttl returns nothing and leaves *)
(* no entry for k; whatever get returns is the value of the latest set of  *)
(* the key, not yet expired.                                               *)
C12_CacheRoundTrip ==
    [][\A k \in CacheKeys :
          UnitGetStep(k)
          => LET h == unit.h_set[k]
                 r == unit'.last
             IN /\ h.live =>
                     IF unit.t <= h.at + h.ttl
                     THEN /\ r.hit /\ r.value = h.value
                          /\ unit'.cache.store = unit.cache.store
                     ELSE /\ ~r.hit
                          /\ ~HasKey(unit'.cache.store, k)
                /\ r.hit => /\ r.value = h.value
                            /\ unit.t <= h.at + h.ttl
                            /\ h.live]_vars

C12_Witness ==
    /\ unit.kind = "cache"
    /\ unit.last.op = "get" /\ ~unit.last.hit
    /\ unit.h_set[unit.last.key].live
    /\ unit.t > unit.h_set[unit.last.key].at + unit.h_set[unit.last.key].ttl
    /\ unit.cache.hits > 0

(* C13 as stated: right after every set the number of stored entries is at *)
(* most max_size, for every max_size, 0 and 1 included.                    *)
C13_Original ==
    (unit.kind = "cache" /\ unit.last.op = "set")
    => Len(unit.cache.store) <= unit.cache.max_size

\* the elements of a list
ElementsOf(list) == {list[i] : i \in 1..Len(list)}

\* two requests agree on what the key is to tell apart
SameRequest(a, b) ==
    /\ LowerStr(a.request.destination) = LowerStr(b.request.destination)
    /\ a.request.duration_days = b.request.duration_days
    /\ a.request.budget = b.request.budget
    /\ a.request.currency = b.request.currency
    /\ ElementsOf(a.request.interests) = ElementsOf(b.request.interests)
    /\ (a.weather_context # "") = (b.weather_context # "")

(* C14 as stated: two requests receive the same cache key if and only if   *)
(* they agree on case-normalized destination, duration, budget amount and  *)
(* currency, the set of interests, and whether weather context was         *)
(* supplied.                                                               *)
C14_Original ==
    (unit.kind = "key" /\ unit.stage = "keyed")
    => ((unit.key_a = unit.key_b) <=> SameRequest(unit.a, unit.b))

(* C15: validate_budget reports is_valid exactly when the total cost is    *)
(* at most the budget plus 5 percent, the bound included: with a budget of *)
(* 100.00 a total of 105.00 is valid and a total of 105.01 is not.         *)
C15_ToleranceBoundary ==
    (unit.kind = "validator" /\ unit.stage # "new" /\ unit.result.raises = "ok")
    => /\ unit.result.is_valid
          <=> (unit.result.total * 100 <= unit.user_budget * 105 * unit.result.den)
       /\ (unit.user_budget = 10000 /\ unit.result.den = 1 /\ unit.result.total = 10500)
          => unit.result.is_valid
       /\ (unit.user_budget = 10000 /\ unit.result.den = 1 /\ unit.result.total = 10501)
          => ~unit.result.is_valid

\* a total exactly at the bound has been judged valid
C15_Witness ==
    /\ unit.kind = "validator" /\ unit.stage = "validated"
    /\ unit.result.raises = "ok" /\ unit.user_budget = 10000
    /\ unit.result.den = 1 /\ unit.result.total = 10500
    /\ unit.result.is_valid

\* the embedded breakdown is present and its five fields are numbers
EmbeddedUsable(doc) ==
    /\ doc.has_breakdown
    /\ \A i \in 1..5 : /\ BreakdownKeys[i] \in DOMAIN doc.budget_breakdown
                       /\ doc.budget_breakdown[BreakdownKeys[i]].t = "num"

(* C16 as stated: the validator takes the embedded breakdown when it is    *)
(* present with five numeric fields, and in every other case returns the   *)
(* breakdown derived from the itemized costs, without failing and without  *)
(* putting zero for a field.                                               *)
C16_Original ==
    (unit.kind = "validator" /\ unit.stage # "new")
    => LET derived == CalculateFromItinerary(unit.doc)
       IN IF EmbeddedUsable(unit.doc)
          THEN /\ unit.result.raises = "ok"
               /\ unit.result.den = 1
               /\ unit.result.breakdown
                    = [i \in 1..5 |-> unit.doc.budget_breakdown[BreakdownKeys[i]].v]
          ELSE /\ unit.result.raises = derived.raises
               /\ unit.result.den = derived.den
               /\ unit.result.breakdown = derived.breakdown

(* C17 as stated: get_budget_summary never fails for a budget of 0 and     *)
(* reports percentage_used 0 then; its status is "within_budget" exactly   *)
(* when validate_budget finds the document valid, "over_budget" otherwise, *)
(* and remaining_budget is the budget less the total cost.                 *)
C17_Original ==
    (unit.kind = "validator" /\ unit.stage = "summarized")
    => /\ unit.user_budget = 0
          => (unit.summary.raises = "ok" /\ unit.summary.percentage_used = 0)
       /\ unit.summary.raises = "ok"
          => /\ unit.summary.status
                  = (IF unit.result.is_valid THEN "within_budget" ELSE "over_budget")
             /\ unit.summary.remaining_budget
                  = unit.user_budget * unit.summary.den - unit.summary.estimated_total_cost

\* the totals of the tracker are the sum and the number of the calls made
TrackerTotals ==
    unit.kind = "tracker"
    => /\ unit.tracker.total_tokens = unit.h_sum
       /\ unit.tracker.total_requests = unit.h_count
       /\ (unit.stats # NoStats /\ unit.stats.total_requests = 0)
          => unit.stats.avg_tokens_per_request = 0

\* no operation on the tracker lowers a total
TrackerStep ==
    unit.kind = "tracker"
    => /\ unit'.tracker.total_tokens >= unit.tracker.total_tokens
       /\ unit'.tracker.total_requests >= unit.tracker.total_requests

(* C18: over any sequence of log_tokens calls total_tokens and             *)
(* total_requests never decrease and are never reset, total_tokens is the  *)
(* sum of the input and output counts logged and total_requests the number *)
(* of calls; stats() before any request reports an average of 0.           *)
C18_TrackerTotals == []TrackerTotals /\ [][TrackerStep]_vars

\* stats() was taken before any request, and calls with tokens followed
C18_Witness ==
    /\ unit.kind = "tracker"
    /\ unit.stats # NoStats /\ unit.stats.total_requests = 0
    /\ unit.stats.avg_tokens_per_request = 0
    /\ unit.h_count = 2 /\ unit.tracker.total_tokens = 927

\* the entries the cache holds for a key
EntriesOf(key) == {i \in 1..Len(llm_cache.store) : llm_cache.store[i].key = key}

\* the model call whose document was written to the cache last
LaterSet == Max(call[1].h_last_set, call[2].h_last_set)

(* C19: when two concurrent calls for one cache key have both completed    *)
(* and have written to the cache, the cache holds a single entry for the   *)
(* key, and its value is the document of the later of the writes.          *)
C19_LaterSetWins ==
    (/\ \A p \in Callers : Terminal(call[p])
     /\ \E p \in Callers : call[p].h_last_set > 0)
    => /\ Cardinality(EntriesOf(KeyOf(call[1]))) = 1
       /\ EntryOf(llm_cache.store, KeyOf(call[1])).value.src = LaterSet

\* both calls missed the cache, both invoked the model and both wrote
C19_Witness ==
    /\ \A p \in Callers :
          /\ Terminal(call[p])
          /\ ~call[p].h_hit0
          /\ call[p].h_model >= 1
          /\ call[p].h_last_set > 0
    /\ KeyOf(call[1]) = KeyOf(call[2])
    /\ call[1].h_last_set < call[2].h_last_set
    /\ Cardinality(EntriesOf(KeyOf(call[1]))) = 1
    /\ EntryOf(llm_cache.store, KeyOf(call[1])).value.src = call[2].h_last_set

(* C20 as stated: under every interleaving of get and set calls by        *)
(* concurrent threads no operation fails, the cache holds at most max_size *)
(* entries after each set, and hits + misses is the number of get calls    *)
(* that have completed.                                                    *)
C20_Original ==
    unit.kind = "threads"
    => /\ \A i \in Threads : unit.th[i].failed = "none"
       /\ ~unit.over
       /\ (\A i \in Threads : unit.th[i].pc = "idle")
          => unit.cache.hits + unit.cache.misses = unit.gets_done

C22_Original ==
    (unit.kind = "handler" /\ unit.stage # "accepted")
    => /\ unit.handed.budget > 0
       /\ unit.utilization # "ZeroDivisionError"

\* the text has neither "{" nor "}"
NoBraces(s) == \A i \in 1..Len(s) : s[i] \notin {"{", "}"}

\* the text is a JSON object as it stands
IsObject(s) == JsonLoads(s).ok /\ JsonLoads(s).val[1] = "{"

\* the text with one comma put before its closing brace
WithTrailingComma(s) == SubSeq(s, 1, Len(s) - 1) \o <<",", "}">>

(* C23 as stated: the parser tries the direct parse, the extraction from   *)
(* the first "{" to the last "}" and the repair in this order, so that a   *)
(* well-formed object is returned by the direct parse, an object with a    *)
(* trailing separator before its closing brace parses to the object        *)
(* without it, an object surrounded by prose is extracted and parsed, and  *)
(* a text without braces always fails with an error.                       *)
C23_Original ==
    (unit.kind = "parser" /\ unit.stage = "parsed")
    => /\ IsObject(unit.text)
          => (unit.result.ok /\ unit.result.via = "direct"
              /\ unit.result.val = JsonLoads(unit.text).val)
       /\ \A o \in ParserTexts :
             (IsObject(o) /\ Len(o) > 2 /\ unit.text = WithTrailingComma(o))
             => (unit.result.ok /\ unit.result.val = JsonLoads(o).val)
       /\ \A o \in ParserTexts :
             (IsObject(o) /\ unit.text = <<"w">> \o o \o <<"w">>)
             => (unit.result.ok /\ unit.result.via = "extracted"
                 /\ unit.result.val = JsonLoads(o).val)
       /\ NoBraces(unit.text) => ~unit.result.ok

(* C24: for a positive budget and a tolerance of zero or more, utilization *)
(* below 75% implies that the document is valid, so a document that        *)
(* validates as over budget never starts the optimization retry, and no    *)
(* document starts both the optimization retry and the over-budget retry.  *)
C24_UnderUtilizedIsValid ==
    (unit.kind = "attempt" /\ unit.stage = "judged")
    => /\ unit.under => unit.valid_at
       /\ unit.call.pc = "optimize" => (unit.call.is_valid /\ unit.under)
       /\ (unit.call.pc = "attempt" /\ unit.call.attempt = 1)
          => (~unit.call.is_valid /\ ~unit.under)

\* an under-used document started the optimization retry, being valid
C24_Witness ==
    /\ unit.kind = "attempt" /\ unit.stage = "judged"
    /\ unit.budget = 1000 /\ unit.total = 749 /\ unit.tolerance = 0
    /\ unit.under /\ unit.valid_at
    /\ unit.call.pc = "optimize" /\ unit.call.is_valid

(* helpers of C25: caller p validates the document of an attempt in this   *)
(* step; the outcome of that validation; utilization below 75 per cent     *)
C25_Validates(p) ==
    /\ call[p].pc \in {"attempt", "api"}
    /\ call'[p].h_validated = call[p].h_validated + 1

C25_Outcome(p) ==
    ValidateBudget(call'[p].itinerary_data.body, call[p].request.budget)

C25_Below75(p) ==
    /\ call[p].request.budget > 0
    /\ C25_Outcome(p).raises = "ok"
    /\ C25_Outcome(p).total * 100
          < 75 * call[p].request.budget * C25_Outcome(p).den

\* the optimization retry starts only once in a call, in an attempt before
\* the last one, on a document with utilization below 75 per cent
C25_StartsOnce(p) ==
    (call'[p].pc = "optimize" /\ call[p].pc # "optimize")
    => /\ C25_Validates(p)
       /\ call[p].h_opt = "none"
       /\ ~call[p].budget_utilization_retry_used
       /\ call'[p].budget_utilization_retry_used
       /\ call[p].attempt < call[p].max_retries
       /\ C25_Below75(p)

\* once started in a call, the retry is recorded as used until the call ends
C25_UsedStays(p) ==
    (call[p].h_opt # "none" /\ call'[p].h_call_no = call[p].h_call_no)
    => (call'[p].budget_utilization_retry_used /\ call'[p].h_opt # "none")

\* the last attempt obtains a document with utilization below 75 per cent
C25_LastUnder(p) ==
    /\ C25_Validates(p)
    /\ call[p].attempt = call[p].max_retries
    /\ C25_Below75(p)

(* C25 as stated: the optimization retry starts at most once in a call and *)
(* only in an attempt before the last whose document has utilization below *)
(* 75 per cent; in the last attempt (always, when max_retries = 0) such a  *)
(* document is returned as it is, tagged within_budget.                    *)
C25_Original ==
    [][\A p \in SeqCallers :
          /\ C25_StartsOnce(p)
          /\ C25_UsedStays(p)
          /\ C25_LastUnder(p)
             => /\ call'[p].pc = "returned"
                /\ call'[p].budget_status = "within_budget"
                /\ call'[p].itinerary_data = call'[p].h_judged]_vars

(* C25 amended: as stated, but the under-used document of the last attempt *)
(* is returned only when TravelResponse can be built from it; otherwise    *)
(* the call raises the ValidationError. The retry is not started for it.   *)
C25_OptimizationOnce ==
    [][\A p \in SeqCallers :
          /\ C25_StartsOnce(p)
          /\ C25_UsedStays(p)
          /\ C25_LastUnder(p)
             => /\ call'[p].pc # "optimize"
                /\ call'[p].h_opt = call[p].h_opt
                /\ call'[p].itinerary_data = call'[p].h_judged
                /\ IF ConstructOutcome(call'[p].itinerary_data.body) = "ok"
                   THEN /\ call'[p].pc = "returned"
                        /\ call'[p].budget_status = "within_budget"
                   ELSE /\ call'[p].pc = "raised"
                        /\ call'[p].raised = "ValueError"
                        /\ call'[p].h_raised_by = "construct"]_vars

\* a call whose optimization retry ran in attempt 0 returned, from its last
\* attempt, an under-used document as within_budget
C25_Witness ==
    \E p \in SeqCallers :
        /\ call[p].pc = "returned" /\ call[p].budget_status = "within_budget"
        /\ call[p].max_retries >= 1 /\ call[p].attempt = call[p].max_retries
        /\ call[p].h_opt # "none" /\ call[p].h_opt_attempt = 0
        /\ call[p].request.budget > 0
        /\ call[p].total_cost * 100 < 75 * call[p].request.budget * call[p].total_den
        /\ call[p].itinerary_data = call[p].h_judged

\* the attempt before the current one of caller p ended in an exception
C26_PrecedingFailed(p) ==
    /\ call[p].h_fail # "none"
    /\ call[p].h_fail_attempt = call[p].attempt - 1

(* C26: a prompt sent to the model carries the "previous attempt exceeded  *)
(* budget" instruction only in an attempt k >= 1 whose preceding attempt   *)
(* produced a document that validated over budget; never after a failed    *)
(* attempt, in attempt 0 or in the optimization retry.                     *)
C26_Original ==
    \A p \in SeqCallers :
        (call[p].pc \in {"api", "optapi"} /\ call[p].formatted_prompt.warning)
        => /\ call[p].pc = "api"
           /\ call[p].attempt >= 1
           /\ ~C26_PrecedingFailed(p)
           /\ call[p].h_over >= 1 /\ ~call[p].is_valid

\* helpers of C27: the entries the last set removed before it stored its own
C27_Removed ==
    {i \in 1..Len(unit.before.store) :
        ~HasKey(unit.room, unit.before.store[i].key)}

C27_Survivors ==
    {i \in 1..Len(unit.before.store) :
        HasKey(unit.room, unit.before.store[i].key)}

\* the removed entries are the oldest, and the others are left as they were
C27_OldestGone ==
    /\ \A r \in C27_Removed, s \in C27_Survivors :
          unit.before.store[r].created_at <= unit.before.store[s].created_at
    /\ unit.room = SelectSeq(unit.before.store, LAMBDA e : HasKey(unit.room, e.key))
    /\ unit.cache.store = PutEntry(unit.room, unit.last)

(* C27 as stated: a set on a cache holding n >= max_size entries removes   *)
(* exactly max(1, n div 10) entries before the insertion, the oldest by    *)
(* creation time; a set on a cache holding fewer removes nothing.          *)
C27_Original ==
    (unit.kind = "evict" /\ unit.sets >= 1)
    => LET n == Len(unit.before.store)
       IN IF n >= unit.before.max_size
          THEN /\ Cardinality(C27_Removed) = Max(1, n \div 10)
               /\ C27_OldestGone
          ELSE unit.room = unit.before.store

(* C27 amended: the same for n >= 1; a set on an empty cache, which is     *)
(* full only when max_size is 0, removes nothing.                          *)
C27_EvictsOldestTenth ==
    (unit.kind = "evict" /\ unit.sets >= 1)
    => LET n == Len(unit.before.store)
       IN IF n >= unit.before.max_size /\ n >= 1
          THEN /\ Cardinality(C27_Removed) = Max(1, n \div 10)
               /\ Len(unit.room) = n - Max(1, n \div 10)
               /\ C27_OldestGone
          ELSE /\ unit.room = unit.before.store
               /\ unit.cache.store = PutEntry(unit.before.store, unit.last)

\* a set on a full cache of 20 entries, the first of them not the oldest,
\* removed two entries and kept the first
C27_Witness ==
    /\ unit.kind = "evict" /\ unit.sets = 1
    /\ unit.before.max_size = 20 /\ Len(unit.before.store) = 20
    /\ Cardinality(C27_Removed) = 2
    /\ 1 \in C27_Survivors
    /\ Len(unit.cache.store) = 19

\* hits + misses is the number of get calls made
C28_CountsGets ==
    unit.kind = "counters" => unit.cache.hits + unit.cache.misses = unit.gets

(* what one call does to the counters: a get adds one to misses when the   *)
(* key is absent or its entry expired and one to hits otherwise; set and   *)
(* clear change neither; stats changes nothing and reports the hit rate    *)
(* hits / (hits + misses) * 100 to the nearest tenth, 0 without any get    *)
C28_CounterStep ==
    LET c == unit.cache
        d == unit'.cache
        k == unit'.last.key
        total == c.hits + c.misses
    IN (unit.kind = "counters" /\ unit' # unit)
       => /\ (unit'.ops = unit.ops + 1 /\ unit'.last.op = "get")
             => IF ~HasKey(c.store, k) \/ unit.t > EntryOf(c.store, k).expires_at
                THEN d.misses = c.misses + 1 /\ d.hits = c.hits
                ELSE d.hits = c.hits + 1 /\ d.misses = c.misses
          /\ (unit'.ops = unit.ops + 1 /\ unit'.last.op \in {"set", "clear"})
             => (d.hits = c.hits /\ d.misses = c.misses)
          /\ (unit'.ops = unit.ops /\ unit'.last.op = "stats")
             => /\ d = c
                /\ unit'.stats.hits = c.hits /\ unit'.stats.misses = c.misses
                /\ unit'.stats.total_requests = total
                /\ IF total = 0 THEN unit'.stats.hit_rate = 0
                   ELSE LET off == unit'.stats.hit_rate * total - c.hits * 1000
                        IN 2 * off <= total /\ 2 * off >= 0 - total

(* C28: every get increments exactly one of hits and misses (misses for an *)
(* absent or expired key, hits otherwise), so hits + misses is the number  *)
(* of get calls; set and clear never change a counter; stats reports the   *)
(* hit rate hits / (hits + misses) * 100, and 0 when no get was made.      *)
C28_HitMissCounters == []C28_CountsGets /\ [][C28_CounterStep]_vars

\* stats after one hit, one miss on an expired key and one on an absent one
C28_Witness ==
    /\ unit.kind = "counters" /\ unit.last.op = "stats"
    /\ unit.gets = 3 /\ unit.stats.hits = 1 /\ unit.stats.misses = 2
    /\ unit.stats.hit_rate = 333

(* C29: in a sequential execution the prompt template is the one loaded at *)
(* construction whenever no optimization retry is in progress, so it is    *)
(* the same after a call returned or raised as before the call; the        *)
(* spend-target extension is on the template only during the optimization  *)
(* retry, and the prompt of no attempt is formatted from it.               *)
C29_TemplateRestored ==
    \A p \in SeqCallers :
        LET c == call[p]
        IN IF c.pc \in {"optimize", "optapi"}
           THEN /\ c.original_prompt = BaseTemplate
                /\ Len(prompt_template) = 1
                /\ prompt_template[1].budget = c.request.budget
                /\ c.pc = "optapi" => c.formatted_prompt.template = prompt_template
           ELSE /\ prompt_template = BaseTemplate
                /\ c.pc = "api" => c.formatted_prompt.template = BaseTemplate

\* a call whose optimization retry threw has returned the original document,
\* and the template is the one loaded at construction
C29_Witness ==
    \E p \in SeqCallers :
        /\ call[p].pc = "returned"
        /\ call[p].h_opt = "failed_generate"
        /\ call[p].h_opt_model >= 1
        /\ prompt_template = BaseTemplate

\* s is the beginning of t
C30_IsPrefix(s, t) == Len(s) <= Len(t) /\ s = SubSeq(t, 1, Len(s))

(* C30: the error of a response that fails to parse carries, besides its   *)
(* fixed wording and at most the text of the decoder's exception, only the *)
(* first 300 characters of the response at most; of a response longer than *)
(* 300 characters it does not carry the whole.                             *)
C30_ErrorPreview ==
    (unit.kind = "error" /\ unit.stage = "done")
    => LET raw == Spell(Strip(unit.text))
           parsed == ParseJsonText(Strip(unit.text))
       IN /\ unit.error.preview # <<>> => (unit.error.raised /\ ~parsed.ok)
          /\ Len(unit.error.preview) <= 300
          /\ C30_IsPrefix(unit.error.preview, raw)
          /\ Len(raw) > 300 => unit.error.preview # raw
          /\ unit.error.detail \in {"none", "JSONDecodeError", "OSError"}
          /\ (~parsed.ok /\ raw # <<>> /\ (unit.retry_count > 0 \/ raw[Len(raw)] = "}"))
             => /\ unit.error.raised
                /\ unit.writable => unit.error.preview = SubSeq(raw, 1, IF Len(raw) < 300 THEN Len(raw) ELSE 300)

\* a broken object of 301 characters was reported with its first 300
C30_Witness ==
    /\ unit.kind = "error" /\ unit.stage = "done"
    /\ Len(Spell(Strip(unit.text))) = 301
    /\ unit.error.raised /\ unit.error.detail = "JSONDecodeError"
    /\ Len(unit.error.preview) = 300

\* the sum of the numbers of a sequence of values of the document
RECURSIVE C31_Sum(_)
C31_Sum(vals) == IF vals = <<>> THEN 0 ELSE Head(vals).v + C31_Sum(Tail(vals))

(* C31: the total cost validate_budget returns is the sum of the five      *)
(* fields of the breakdown it returns, and no field is negative; for a     *)
(* document without an embedded breakdown, miscellaneous is a tenth of the *)
(* sum of the other four, accommodation is the mean price per night times  *)
(* the duration, and transportation is the sum of the costs to the         *)
(* destination plus the duration times the sum of the local daily costs.   *)
C31_Original ==
    (unit.kind = "breakdown" /\ unit.stage = "validated" /\ unit.result.raises = "ok")
    => LET b == unit.result.breakdown
           den == unit.result.den
           doc == unit.doc
           n == Len(doc.accommodation_suggestions)
       IN /\ unit.result.total = b[1] + b[2] + b[3] + b[4] + b[5]
          /\ \A i \in 1..5 : b[i] >= 0
          /\ ~doc.has_breakdown
             => /\ 10 * b[5] = b[1] + b[2] + b[3] + b[4]
                /\ n > 0 => b[1] * n = C31_Sum(doc.accommodation_suggestions)
                                         * doc.duration * den
                /\ b[2] = (C31_Sum(doc.to_destination)
                           + doc.duration * C31_Sum(doc.local_transport)) * den

(* C32: every model invocation that returned a response is logged exactly  *)
(* once, whatever becomes of the response, and nothing else is: a step in  *)
(* which the model answers adds one to total_requests unless the API call  *)
(* raised, and a step without a model call leaves the tracker unchanged.   *)
C32_Original ==
    [][\A p \in SeqCallers :
          /\ (serial' = serial /\ call'[p] # call[p])
             => token_tracker' = token_tracker
          /\ (serial' = serial + 1 /\ call[p].pc \in {"api", "optapi"})
             => \/ token_tracker'.total_requests = token_tracker.total_requests + 1
                \/ /\ token_tracker' = token_tracker
                   /\ IF call[p].pc = "api"
                      THEN /\ call'[p].h_fail = "api"
                           /\ call'[p].h_fail_attempt = call[p].attempt
                      ELSE call'[p].h_opt = "failed_generate"]_vars

\* the limited requests of client c let through in the 60 seconds up to x
C33_Admitted(c, x) == OkSince(unit.h_ok, c, x - 60) - OkSince(unit.h_ok, c, x)

\* no client has more than 20 limited requests let through in 60 seconds
C33_WindowLimit ==
    unit.kind = "clients"
    => \A c \in LimitedClients :
          /\ \A x \in RateTimes : C33_Admitted(c, x) <= 20
          /\ Len(unit.requests[c]) <= 20

(* one request: for an exempt path it is let through and nothing is        *)
(* recorded; for another path it is let through exactly when fewer than 20 *)
(* of the client's requests were let through in the last 60 seconds and is *)
(* then recorded; a refused one is not recorded; the other clients'        *)
(* records are untouched in every case                                     *)
C33_RequestStep ==
    (unit.kind = "clients" /\ unit'.sent # unit.sent)
    => LET c == unit'.last.client
           before == OkSince(unit.h_ok, c, unit.t - 60)
       IN /\ \A o \in LimitedClients \ {c} :
                unit'.requests[o] = unit.requests[o] /\ unit'.h_ok[o] = unit.h_ok[o]
          /\ IF unit'.last.path \in {"/", "/health", "/docs", "/redoc", "/openapi.json", "/stats"}
             THEN /\ unit'.last.status = 200
                  /\ unit'.requests = unit.requests
                  /\ unit'.h_ok = unit.h_ok
             ELSE /\ unit'.last.status = (IF before < 20 THEN 200 ELSE 429)
                  /\ Len(unit'.requests[c])
                        = before + (IF unit'.last.status = 200 THEN 1 ELSE 0)
                  /\ unit'.last.status = 429 => unit'.h_ok = unit.h_ok

C34_Fresh(key, t) ==
    \E j \in 1..Len(unit.cache.store) :
        unit.cache.store[j].key = key /\ t <= unit.cache.store[j].expires_at

\* the entry stored under key after the step, if any, was made at time t
\* with the given time to live
C34_StoredNow(key, t, ttl) ==
    \E j \in 1..Len(unit'.cache.store) :
        /\ unit'.cache.store[j].key = key
        /\ unit'.cache.store[j].created_at = t
        /\ unit'.cache.store[j].expires_at = t + ttl

C34_Absent(key) ==
    \A j \in 1..Len(unit'.cache.store) : unit'.cache.store[j].key # key

(* every entry lives 7 days (coordinates) or 6 hours (a forecast) and      *)
(* holds a result, never the outcome of a failed lookup; entries of the    *)
(* generation cache live 24 hours                                          *)
C34_Entries ==
    unit.kind = "weather"
    => /\ LLM_CACHE_TTL = 24
       /\ \A j \in 1..Len(unit.cache.store) :
             LET e == unit.cache.store[j]
             IN IF e.key[1] = "geocode"
                THEN e.expires_at - e.created_at = 168 /\ e.value # NoCoords
                ELSE e.expires_at - e.created_at = 6

(* one call: an API is asked only after a miss in the cache; what a        *)
(* successful lookup returns is stored now, for 7 days or 6 hours; after a *)
(* failed lookup nothing is stored under the key                           *)
C34_CallStep ==
    (unit.kind = "weather" /\ unit'.calls = unit.calls + 1)
    => LET l == unit'.last
           t == l.at
           gkey == <<"geocode", LowerStr(l.destination)>>
           fkey == <<"forecast", LowerStr(l.destination), l.days, t \div 24>>
       IN /\ l.geo_called => ~C34_Fresh(gkey, t)
          /\ (l.geo_called /\ l.geo_api = "ok") => C34_StoredNow(gkey, t, 168)
          /\ (l.geo_called /\ l.geo_api # "ok") => C34_Absent(gkey)
          /\ l.op = "coordinates"
             => (l.geo_called <=> ~C34_Fresh(gkey, t))
          /\ l.op = "forecast"
             => /\ l.fc_called => ~C34_Fresh(fkey, t)
                /\ C34_Fresh(fkey, t) => (~l.geo_called /\ ~l.fc_called)
                /\ ~C34_Fresh(fkey, t) => (l.geo_called <=> ~C34_Fresh(gkey, t))
                /\ (l.fc_called /\ l.fc_api # "error") => C34_StoredNow(fkey, t, 6)
                /\ (~C34_Fresh(fkey, t) /\ (~l.fc_called \/ l.fc_api = "error"))
                   => (C34_Absent(fkey) /\ l.result = <<>>)

(* C34: the weather service looks into the cache before each lookup and    *)
(* calls the geocoding or forecast API only on a miss; coordinates found   *)
(* are cached for 7 days, a forecast for 6 hours, generation results for   *)
(* 24 hours; a failed lookup is never cached, so that the next call asks   *)
(* the API again.                                                          *)
C34_WeatherCaching == []C34_Entries /\ [][C34_CallStep]_vars

\* after a geocoding failure the next call for the destination asked the
\* geocoding API again and then the forecast API
C34_Witness ==
    /\ unit.kind = "weather" /\ unit.calls = 2
    /\ unit.last.op = "forecast"
    /\ unit.last.geo_called /\ unit.last.fc_called
    /\ unit.cache.misses = 4 /\ unit.cache.hits = 0
    /\ Len(unit.cache.store) = 2

\* the call of p is under way
C35_Running(p) == call[p].pc \in {"attempt", "api", "optimize", "optapi"}

\* the call of p has returned a document or raised
C35_Ended(p) ==
    \/ call[p].pc = "returned" /\ call[p].itinerary_data # NoDoc
    \/ call[p].pc = "raised"

(* the attempts are numbered 0..max_retries; the model has been asked at   *)
(* most once per attempt begun plus once by the optimization retry         *)
C35_Counts ==
    \A p \in SeqCallers :
        LET c == call[p]
        IN c.pc # "idle"
           => /\ c.attempt <= c.max_retries
              /\ c.h_opt_model <= 1
              /\ c.h_model <= c.attempt + 1 + c.h_opt_model
              /\ c.h_model <= c.max_retries + 2

(* the model is asked only by the call that waits for it, one request in   *)
(* one step, and a call that ended asks no more                            *)
C35_OneAtATime ==
    \A p \in SeqCallers :
        /\ call'[p].h_model # call[p].h_model
           => /\ call[p].pc \in {"api", "optapi"}
              /\ call'[p].h_model = call[p].h_model + 1
              /\ call'[p].pc \notin {"api", "optapi"}
        /\ call[p].pc \in {"returned", "raised"} => call'[p] = call[p]

C36_AllFinished ==
    /\ \E p \in Callers : call[p].pc # "idle"
    /\ \A p \in Callers : call[p].pc \in {"idle", "returned", "raised"}

\* once no call is under way the shared template is the loaded one
C36_RestoredAtEnd == C36_AllFinished => prompt_template = BaseTemplate

\* a prompt formatted by p holds no instruction appended by another call
C36_FormatStep ==
    \A p \in Callers :
        (call[p].pc \in {"attempt", "optimize"} /\ call'[p].pc \in {"api", "optapi"})
        => \A k \in 1..Len(call'[p].formatted_prompt.template) :
              call'[p].formatted_prompt.template[k].by = p

(* C36: for any interleaving of concurrent calls of the shared service,    *)
(* each of which may make an optimization retry, the shared template is    *)
(* the base template once all calls have finished, and no call formats a   *)
(* prompt from a template that holds another call's instruction.           *)
C36_Original == []C36_RestoredAtEnd /\ [][C36_FormatStep]_vars

\* the last set wrote a key that was stored, into a cache holding max_size entries
C37_OverwriteWhenFull ==
    /\ unit.kind = "evict" /\ unit.sets >= 1
    /\ HasKey(unit.before.store, unit.last.key)
    /\ Len(unit.before.store) = unit.before.max_size

\* the number of entries the eviction of the last set removed
C37_Evicted == Len(unit.before.store) - Len(unit.room)

\* the eviction of the last set removed the entry of the key it wrote
C37_KeyEvicted == ~HasKey(unit.room, unit.last.key)

\* the eviction removed max(1, n div 10) entries, none younger than one it left
C37_EvictionRan ==
    LET n == Len(unit.before.store)
        left == {i \in 1..n : HasKey(unit.room, unit.before.store[i].key)}
    IN /\ C37_Evicted = Max(1, n \div 10)
       /\ Cardinality(left) = Len(unit.room)
       /\ \A r \in (1..n) \ left, s \in left :
             unit.before.store[r].created_at <= unit.before.store[s].created_at
       /\ unit.cache.store = PutEntry(unit.room, unit.last)

(* C37 as stated: a set on a stored key while the store holds max_size     *)
(* entries removes max(1, n div 10) oldest entries before it overwrites,   *)
(* and leaves fewer than max_size entries.                                 *)
C37_Original ==
    C37_OverwriteWhenFull
    => /\ C37_EvictionRan
       /\ Len(unit.cache.store) < unit.before.max_size

(* C37 amended: such a set removes max(1, n div 10) oldest entries and     *)
(* then stores its own; n - k entries are left when the key was not among  *)
(* the removed ones and n - k + 1 when it was, so the size is below        *)
(* max_size except when one entry is removed and it is the key's own.      *)
C37_OverwriteEvicts ==
    C37_OverwriteWhenFull
    => LET n == Len(unit.before.store)
           k == Max(1, n \div 10)
       IN /\ C37_EvictionRan
          /\ Len(unit.cache.store) = IF C37_KeyEvicted THEN n - k + 1 ELSE n - k
          /\ Len(unit.cache.store) < unit.before.max_size
             <=> ~(k = 1 /\ C37_KeyEvicted)

\* key 5 was overwritten in a full cache of 20 entries: two other keys went
C37_Witness ==
    /\ C37_OverwriteWhenFull
    /\ unit.before.max_size = 20
    /\ unit.last.key = 5
    /\ ~C37_KeyEvicted
    /\ Len(unit.cache.store) = 18

\* entry e of the cache before the step is no longer stored after it
C38_Gone(e) == \A j \in 1..Len(unit'.cache.store) : unit'.cache.store[j] # e

\* no entry left in place by the step is older than e
C38_AmongOldest(e) ==
    \A j \in 1..Len(unit.cache.store) :
        ~C38_Gone(unit.cache.store[j])
        => e.created_at <= unit.cache.store[j].created_at

(* an expired entry leaves the store only by a get of its key, by a set    *)
(* that found the store full and evicted it as one of the oldest, by a set *)
(* of its own key, which puts a new entry in its place, or by clear        *)
C38_ExpiredLeaves ==
    \A i \in 1..Len(unit.cache.store) :
        LET e == unit.cache.store[i]
        IN (IsExpired(e, unit.t) /\ C38_Gone(e))
           => /\ unit'.ops = unit.ops + 1
              /\ \/ unit'.last.op = "get" /\ unit'.last.key = e.key
                 \/ unit'.last.op = "clear"
                 \/ /\ unit'.last.op = "set"
                    /\ \/ unit'.last.key = e.key /\ HasKey(unit'.cache.store, e.key)
                       \/ /\ Len(unit.cache.store) >= unit.cache.max_size
                          /\ C38_AmongOldest(e)

(* a set counts the expired entries when it decides whether the store is   *)
(* full: a new key in a store of max_size entries costs the oldest entry,  *)
(* expired or not, and below max_size every entry stays                    *)
C38_SetCountsExpired ==
    (unit'.ops = unit.ops + 1 /\ unit'.last.op = "set"
        /\ ~HasKey(unit.cache.store, unit'.last.key))
    => LET n == Len(unit.cache.store)
       IN IF n >= unit.cache.max_size /\ n >= 1
          THEN /\ Len(unit'.cache.store) = n - Max(1, n \div 10) + 1
               /\ \A i \in 1..n : C38_Gone(unit.cache.store[i])
                                  => C38_AmongOldest(unit.cache.store[i])
          ELSE /\ Len(unit'.cache.store) = n + 1
               /\ \A i \in 1..n : ~C38_Gone(unit.cache.store[i])

C38_CacheStep == unit.kind = "cache" => (C38_ExpiredLeaves /\ C38_SetCountsExpired)

(* C38: SimpleCache removes an expired entry only when its key is read by  *)
(* get, when eviction picks it as one of the oldest, or on clear; set does *)
(* not purge expired entries, which count toward the size and the          *)
(* capacity, and eviction goes by creation time alone.                     *)
C38_ExpiredStay == [][C38_CacheStep]_vars

(* a set of a third key into a full cache of two evicted the entry of key  *)
(* 1, which had not expired, and left the expired entry of key 2           *)
C38_Witness ==
    /\ unit.kind = "cache" /\ unit.ops = 3
    /\ unit.last.op = "set" /\ unit.last.key = 3
    /\ Len(unit.cache.store) = 2
    /\ ~unit.h_set[1].live /\ unit.h_set[1].value # 0
    /\ unit.t <= unit.h_set[1].at + unit.h_set[1].ttl
    /\ HasKey(unit.cache.store, 2)
    /\ IsExpired(EntryOf(unit.cache.store, 2), unit.t)

====
